---- MODULE Spec2Model ----
(***************************************************************************)
(* Analytics / signal engine of the municipal health backend:              *)
(* indicator-name normalisation, batch spike detection, the single-record  *)
(* outbreak check, the maternal risk scorer, the bed and ICU capacity      *)
(* prediction, the ward risk score and the facility-status ingestion.      *)
(*                                                                         *)
(* Text is modelled as a sequence of one-character strings, so that        *)
(* lower-casing, stripping, substring search and the regular-expression    *)
(* substitutions are computed, character by character, as the code does.   *)
(* Floating-point quantities are modelled as exact rationals <<num, den>>. *)
(***************************************************************************)
EXTENDS Integers, Sequences, FiniteSets, TLC

VARIABLES
    nIn,        \* normaliser: the raw indicator name
    nAlt,       \* normaliser: a second spelling of the same name
    nOut,       \* normalize_indicator_name(nIn)
    nAltOut,    \* normalize_indicator_name(nAlt)
    nTwice,     \* normalize_indicator_name(nOut)
    nPc,        \* normaliser: position of the caller
    csvRows,    \* batch detector: the rows of datasets/health.csv
    grouped,    \* batch detector: the aggregated frame (lines 50-61)
    floored,    \* batch detector: the frame with its baseline (lines 64-76)
    outbreaks,  \* batch detector: the returned frame
    sPc,        \* batch detector: position of the caller
    ingested_store, \* single-record check: the records of the store, oldest first
    oneRecord,  \* single-record check: the record last checked
    oneResult,  \* single-record check: what the check returned
    oPc,        \* single-record check: position of the caller
    riskCsv,    \* risk scorer: the rows of datasets/health.csv
    riskEvents, \* risk scorer: the risk_events frame (lines 51-66)
    riskRows,   \* risk scorer: the returned frame
    rPc,        \* risk scorer: position of the caller
    facilities,     \* database: the rows of table facilities
    health_records, \* database: the health records, in insertion order
    facility_status, \* database: the rows of table facility_status
    bed_frame,      \* predict_bed_demand: its locals at the return
    bed_prediction, \* predict_bed_demand: the returned dict
    icu_frame,      \* predict_icu_demand: its locals at the return
    icu_prediction, \* predict_icu_demand: the returned dict
    ward_order,     \* database: the order in which a query yields the wards
    ward_risk,      \* ward risk: the dict compute_ward_risk returned last
    ward_frame,     \* ward risk: the locals of that call
    all_wards,      \* ward risk: the "wards" list get_all_wards_risk returned
    status_csv,     \* facility status: the rows of data/facility_status.csv
    background_tasks, \* facility status: the broadcasts scheduled
    status_payload, \* facility status: the payload of the last request
    status_response, \* facility status: the response to it
    permRows,       \* batch detector: the rows of health.csv in another order
    second_run,     \* batch detector: <<frame>> returned by a second run
    permuted_run,   \* batch detector: <<frame>> returned on the permuted rows
    failed_read,    \* store failure: the read that raised in the last call
    call_outcome,   \* store failure: "returned" or "raised", as the caller saw
    pass_pc,        \* interleaved ward risk: position of compute_ward_risk
    pass_cases_24h, \* interleaved ward risk: its local cases_24h
    pass_cases_6h,  \* interleaved ward risk: its local cases_6h
    pass_frame,     \* interleaved ward risk: its locals at the return
    pass_risk,      \* interleaved ward risk: the returned dict
    patient_transactions, \* ingestion: the committed rows of the table
    failed_store,   \* ingestion: the rows of failed_patient_events.csv
    ingest_payload, \* ingestion: the payload of the last call
    ingest_result,  \* ingestion: what process_ingest returned
    ambulances,     \* ambulances: the rows of the table, in the order of get_all
    nearest_limit,  \* ambulances: the limit of the last /nearest request
    nearest_result, \* ambulances: <<list>> returned by find_nearest_available
    active,         \* ConnectionManager: self.active
    socket_state,   \* websockets: "new", "connected", "failed" or "disconnected"
    bc_pc,          \* broadcast: "idle", or "loop" while it iterates
    bc_pending,     \* broadcast: what is left of list(self.active)
    living,         \* broadcast: its local list living
    broadcasts      \* broadcast: how many were started

normVars == <<nIn, nAlt, nOut, nAltOut, nTwice, nPc>>

spikeVars == <<csvRows, grouped, floored, outbreaks, sPc>>

oneVars == <<ingested_store, oneRecord, oneResult, oPc>>

riskVars == <<riskCsv, riskEvents, riskRows, rPc>>

dbVars == <<facilities, health_records, facility_status, ward_order>>

capVars == <<bed_frame, bed_prediction, icu_frame, icu_prediction>>

wardVars == <<ward_risk, ward_frame, all_wards>>

statusVars == <<status_csv, background_tasks, status_payload, status_response>>

orderVars == <<permRows, second_run, permuted_run>>

failVars == <<failed_read, call_outcome>>

passVars == <<pass_pc, pass_cases_24h, pass_cases_6h, pass_frame, pass_risk>>

ingestVars == <<patient_transactions, failed_store, ingest_payload, ingest_result>>

ambulanceVars == <<ambulances, nearest_limit, nearest_result>>

wsVars == <<active, socket_state, bc_pc, bc_pending, living, broadcasts>>

\* the components that follow facility-status ingestion
restVars == <<orderVars, failVars, passVars, ingestVars, ambulanceVars, wsVars>>

vars == <<normVars, spikeVars, oneVars, riskVars, dbVars, capVars, wardVars,
          statusVars, restVars>>

(***************************************************************************)
(* Characters and strings (Python str semantics on the ASCII subset used). *)
(***************************************************************************)

\* The characters of the model in ASCII order: ' ' '-' '7' '<' A-Z '_' a-z.
Alphabet ==
    <<" ", "-", "7", "<",
      "A","B","C","D","E","F","G","H","I","J","K","L","M",
      "N","O","P","Q","R","S","T","U","V","W","X","Y","Z",
      "_",
      "a","b","c","d","e","f","g","h","i","j","k","l","m",
      "n","o","p","q","r","s","t","u","v","w","x","y","z">>

Ord(c) == CHOOSE i \in 1..Len(Alphabet) : Alphabet[i] = c

IsUpper(c) == Ord(c) >= 5 /\ Ord(c) <= 30

IsLowerCh(c) == Ord(c) >= 32

LowerChar(c) == IF IsUpper(c) THEN Alphabet[Ord(c) + 27] ELSE c

UpperChar(c) == IF IsLowerCh(c) THEN Alphabet[Ord(c) - 27] ELSE c

\* str.lower()
StrLower(s) == [i \in 1..Len(s) |-> LowerChar(s[i])]

\* str.upper()
StrUpper(s) == [i \in 1..Len(s) |-> UpperChar(s[i])]

\* the whitespace class \s, and what str.strip() removes
Whitespace == {" "}

\* the character class [-_]
HyphenUnderscore == {"-", "_"}

SetMin(S) == CHOOSE m \in S : \A x \in S : m <= x

SetMax(S) == CHOOSE m \in S : \A x \in S : m >= x

\* str.strip()
Strip(s) ==
    LET keep == {i \in 1..Len(s) : s[i] \notin Whitespace}
    IN  IF keep = {} THEN <<>> ELSE SubSeq(s, SetMin(keep), SetMax(keep))

\* k occurs in s starting at index i
MatchAt(s, k, i) ==
    /\ i + Len(k) - 1 <= Len(s)
    /\ \A j \in 1..Len(k) : s[i + j - 1] = k[j]

\* Python's  k in s
Contains(s, k) == \E i \in 1..(Len(s) - Len(k) + 1) : MatchAt(s, k, i)

\* re.sub(r'[cls]+', ' ', s): every maximal run of characters of cls
\* becomes one space
ReSubRuns(s, cls) ==
    LET F[i \in 0..Len(s)] ==
            IF i = 0 THEN <<>>
            ELSE IF s[i] \notin cls THEN Append(F[i-1], s[i])
            ELSE IF i > 1 /\ s[i-1] \in cls THEN F[i-1]
            ELSE Append(F[i-1], " ")
    IN  F[Len(s)]

\* str.replace(old, new), leftmost non-overlapping occurrences
RECURSIVE Replace(_, _, _)
Replace(s, old, new) ==
    IF Len(s) = 0 THEN <<>>
    ELSE IF MatchAt(s, old, 1)
         THEN new \o Replace(SubSeq(s, Len(old) + 1, Len(s)), old, new)
         ELSE <<s[1]>> \o Replace(Tail(s), old, new)

\* str.title(): a letter that follows a non-letter is upper-cased, every
\* other letter is lower-cased
IsLetter(c) == IsUpper(c) \/ IsLowerCh(c)

Title(s) ==
    [i \in 1..Len(s) |->
        IF i = 1 \/ ~IsLetter(s[i-1]) THEN UpperChar(s[i]) ELSE LowerChar(s[i])]

(***************************************************************************)
(* utils/indicator_normalizer.py                                           *)
(***************************************************************************)

\* the dict, in insertion order, as <<key, canonical_form>> pairs
INDICATOR_MAPPING == <<
    <<<<"m","a","l","a","r","i","a">>,
      <<"N","e","w"," ","M","a","l","a","r","i","a"," ","C","a","s","e","s">>>>,
    <<<<"n","e","w"," ","m","a","l","a","r","i","a">>,
      <<"N","e","w"," ","M","a","l","a","r","i","a"," ","C","a","s","e","s">>>>,
    <<<<"m","a","l","a","r","i","a"," ","c","a","s","e","s">>,
      <<"N","e","w"," ","M","a","l","a","r","i","a"," ","C","a","s","e","s">>>>,
    <<<<"n","e","w"," ","m","a","l","a","r","i","a"," ","c","a","s","e","s">>,
      <<"N","e","w"," ","M","a","l","a","r","i","a"," ","C","a","s","e","s">>>>,
    <<<<"m","a","l","a","r","i","a"," ","i","d","e","n","t","i","f","i","e","d">>,
      <<"N","e","w"," ","M","a","l","a","r","i","a"," ","C","a","s","e","s">>>>,
    <<<<"n","e","w"," ","m","a","l","a","r","i","a"," ","c","a","s","e","s"," ","i","d","e","n","t","i","f","i","e","d">>,
      <<"N","e","w"," ","M","a","l","a","r","i","a"," ","C","a","s","e","s">>>>,
    <<<<"d","e","n","g","u","e">>,
      <<"D","e","n","g","u","e"," ","C","a","s","e","s">>>>,
    <<<<"d","e","n","g","u","e"," ","c","a","s","e","s">>,
      <<"D","e","n","g","u","e"," ","C","a","s","e","s">>>>,
    <<<<"d","e","n","g","u","e"," ","f","e","v","e","r">>,
      <<"D","e","n","g","u","e"," ","C","a","s","e","s">>>>,
    <<<<"n","e","w"," ","d","e","n","g","u","e">>,
      <<"D","e","n","g","u","e"," ","C","a","s","e","s">>>>,
    <<<<"t","b">>,
      <<"T","u","b","e","r","c","u","l","o","s","i","s"," ","C","a","s","e","s">>>>,
    <<<<"t","u","b","e","r","c","u","l","o","s","i","s">>,
      <<"T","u","b","e","r","c","u","l","o","s","i","s"," ","C","a","s","e","s">>>>,
    <<<<"n","e","w"," ","t","b">>,
      <<"T","u","b","e","r","c","u","l","o","s","i","s"," ","C","a","s","e","s">>>>,
    <<<<"t","b"," ","c","a","s","e","s">>,
      <<"T","u","b","e","r","c","u","l","o","s","i","s"," ","C","a","s","e","s">>>>,
    <<<<"t","u","b","e","r","c","u","l","o","s","i","s"," ","c","a","s","e","s">>,
      <<"T","u","b","e","r","c","u","l","o","s","i","s"," ","C","a","s","e","s">>>>,
    <<<<"d","i","a","r","r","h","e","a">>,
      <<"D","i","a","r","r","h","e","a"," ","C","a","s","e","s">>>>,
    <<<<"d","i","a","r","r","h","o","e","a">>,
      <<"D","i","a","r","r","h","e","a"," ","C","a","s","e","s">>>>,
    <<<<"d","i","a","r","r","h","e","a","l">>,
      <<"D","i","a","r","r","h","e","a"," ","C","a","s","e","s">>>>,
    <<<<"a","c","u","t","e"," ","d","i","a","r","r","h","e","a">>,
      <<"D","i","a","r","r","h","e","a"," ","C","a","s","e","s">>>>,
    <<<<"h","i","v">>,
      <<"H","I","V"," ","C","a","s","e","s">>>>,
    <<<<"h","i","v"," ","p","o","s","i","t","i","v","e">>,
      <<"H","I","V"," ","C","a","s","e","s">>>>,
    <<<<"n","e","w"," ","h","i","v">>,
      <<"H","I","V"," ","C","a","s","e","s">>>>,
    <<<<"h","e","p","a","t","i","t","i","s">>,
      <<"H","e","p","a","t","i","t","i","s"," ","C","a","s","e","s">>>>,
    <<<<"h","e","p","a","t","i","t","i","s"," ","a">>,
      <<"H","e","p","a","t","i","t","i","s"," ","C","a","s","e","s">>>>,
    <<<<"h","e","p","a","t","i","t","i","s"," ","b">>,
      <<"H","e","p","a","t","i","t","i","s"," ","C","a","s","e","s">>>>,
    <<<<"h","e","p","a","t","i","t","i","s"," ","c">>,
      <<"H","e","p","a","t","i","t","i","s"," ","C","a","s","e","s">>>>,
    <<<<"m","e","a","s","l","e","s">>,
      <<"M","e","a","s","l","e","s"," ","C","a","s","e","s">>>>,
    <<<<"m","e","a","s","l","e","s"," ","c","a","s","e","s">>,
      <<"M","e","a","s","l","e","s"," ","C","a","s","e","s">>>>,
    <<<<"n","e","w"," ","m","e","a","s","l","e","s">>,
      <<"M","e","a","s","l","e","s"," ","C","a","s","e","s">>>>,
    <<<<"p","n","e","u","m","o","n","i","a">>,
      <<"P","n","e","u","m","o","n","i","a"," ","C","a","s","e","s">>>>,
    <<<<"p","n","e","u","m","o","n","i","a"," ","c","a","s","e","s">>,
      <<"P","n","e","u","m","o","n","i","a"," ","C","a","s","e","s">>>>,
    <<<<"a","c","u","t","e"," ","p","n","e","u","m","o","n","i","a">>,
      <<"P","n","e","u","m","o","n","i","a"," ","C","a","s","e","s">>>>,
    <<<<"e","n","c","e","p","h","a","l","i","t","i","s">>,
      <<"E","n","c","e","p","h","a","l","i","t","i","s"," ","C","a","s","e","s">>>>,
    <<<<"v","i","r","a","l"," ","e","n","c","e","p","h","a","l","i","t","i","s">>,
      <<"E","n","c","e","p","h","a","l","i","t","i","s"," ","C","a","s","e","s">>>>,
    <<<<"c","h","o","l","e","r","a">>,
      <<"C","h","o","l","e","r","a"," ","C","a","s","e","s">>>>,
    <<<<"a","c","u","t","e"," ","c","h","o","l","e","r","a">>,
      <<"C","h","o","l","e","r","a"," ","C","a","s","e","s">>>>,
    <<<<"c","h","o","l","e","r","a"," ","c","a","s","e","s">>,
      <<"C","h","o","l","e","r","a"," ","C","a","s","e","s">>>>,
    <<<<"i","n","f","l","u","e","n","z","a">>,
      <<"I","n","f","l","u","e","n","z","a"," ","C","a","s","e","s">>>>,
    <<<<"f","l","u">>,
      <<"I","n","f","l","u","e","n","z","a"," ","C","a","s","e","s">>>>,
    <<<<"s","e","a","s","o","n","a","l"," ","f","l","u">>,
      <<"I","n","f","l","u","e","n","z","a"," ","C","a","s","e","s">>>>,
    <<<<"i","n","f","l","u","e","n","z","a"," ","l","i","k","e"," ","i","l","l","n","e","s","s">>,
      <<"I","n","f","l","u","e","n","z","a"," ","C","a","s","e","s">>>>,
    <<<<"m","a","t","e","r","n","a","l"," ","d","e","a","t","h">>,
      <<"M","a","t","e","r","n","a","l"," ","M","o","r","t","a","l","i","t","y">>>>,
    <<<<"m","a","t","e","r","n","a","l"," ","d","e","a","t","h","s">>,
      <<"M","a","t","e","r","n","a","l"," ","M","o","r","t","a","l","i","t","y">>>>,
    <<<<"n","e","o","n","a","t","a","l"," ","d","e","a","t","h">>,
      <<"N","e","o","n","a","t","a","l"," ","M","o","r","t","a","l","i","t","y">>>>,
    <<<<"n","e","o","n","a","t","a","l"," ","d","e","a","t","h","s">>,
      <<"N","e","o","n","a","t","a","l"," ","M","o","r","t","a","l","i","t","y">>>>,
    <<<<"d","e","a","t","h">>,
      <<"D","e","a","t","h","s">>>>,
    <<<<"d","e","a","t","h","s">>,
      <<"D","e","a","t","h","s">>>>,
    <<<<"l","o","w"," ","b","i","r","t","h"," ","w","e","i","g","h","t">>,
      <<"L","o","w"," ","B","i","r","t","h"," ","W","e","i","g","h","t">>>>,
    <<<<"l","b","w">>,
      <<"L","o","w"," ","B","i","r","t","h"," ","W","e","i","g","h","t">>>>,
    <<<<"h","y","p","e","r","t","e","n","s","i","o","n">>,
      <<"H","y","p","e","r","t","e","n","s","i","o","n"," ","C","a","s","e","s">>>>,
    <<<<"h","i","g","h"," ","b","l","o","o","d"," ","p","r","e","s","s","u","r","e">>,
      <<"H","y","p","e","r","t","e","n","s","i","o","n"," ","C","a","s","e","s">>>>
  >>

\* the disease keywords of step 4, in list order
diseases == <<
    <<"m","a","l","a","r","i","a">>,
    <<"d","e","n","g","u","e">>,
    <<"t","u","b","e","r","c","u","l","o","s","i","s">>,
    <<"t","b">>,
    <<"d","i","a","r","r","h","e","a">>,
    <<"h","i","v">>,
    <<"h","e","p","a","t","i","t","i","s">>,
    <<"m","e","a","s","l","e","s">>,
    <<"p","n","e","u","m","o","n","i","a">>,
    <<"e","n","c","e","p","h","a","l","i","t","i","s">>,
    <<"c","h","o","l","e","r","a">>,
    <<"i","n","f","l","u","e","n","z","a">>,
    <<"f","l","u">>,
    <<"d","e","a","t","h">>,
    <<"m","o","r","t","a","l","i","t","y">>
  >>

MappingLookupLast(normalized) ==
    LET hits == {i \in 1..Len(INDICATOR_MAPPING) :
                    \/ normalized = INDICATOR_MAPPING[i][1]
                    \/ Contains(normalized, INDICATOR_MAPPING[i][1])}
    IN  IF hits = {} THEN 0 ELSE SetMax(hits)

\* the loop of step 3: the index of the first entry whose key equals or
\* occurs in the name, 0 when the loop falls through
MappingLookup(normalized) ==
    LET hits == {i \in 1..Len(INDICATOR_MAPPING) :
                    \/ normalized = INDICATOR_MAPPING[i][1]
                    \/ Contains(normalized, INDICATOR_MAPPING[i][1])}
    IN  IF hits = {} THEN 0 ELSE SetMin(hits)

normalize_indicator_name(indicator_name) ==
    IF indicator_name = <<>>
    THEN <<"U","n","k","n","o","w","n">>
    ELSE
    LET normalized ==
            ReSubRuns(ReSubRuns(Strip(StrLower(indicator_name)),
                                HyphenUnderscore), Whitespace)
        hit == MappingLookup(normalized)
        found == {i \in 1..Len(diseases) : Contains(normalized, diseases[i])}
    IN  IF hit # 0 THEN INDICATOR_MAPPING[hit][2]
        ELSE IF found # {}
        THEN LET disease == diseases[SetMin(found)]
                 disease_title ==
                    Replace(Title(Replace(disease, <<"t","b">>, <<"T","B">>)),
                            <<"h","i","v">>, <<"H","I","V">>)
             IN  IF \/ Contains(normalized, <<"d","e","a","t","h">>)
                    \/ Contains(normalized, <<"m","o","r","t","a","l","i","t","y">>)
                 THEN <<"D","e","a","t","h","s">>
                 ELSE disease_title \o <<" ","C","a","s","e","s">>
        ELSE Strip(indicator_name)

(***************************************************************************)
(* Callers of the normaliser: the names it is applied to.                  *)
(***************************************************************************)

\* further raw names: the empty name, the fallback results,
\* the inputs of test_normalization.py and names that match nothing
ExtraNames == {
    <<>>,
    <<"U","n","k","n","o","w","n">>,
    <<"D","e","a","t","h","s">>,
    <<"N","e","w"," ","m","a","l","a","r","i","a","-","c","a","s","e","s"," ","i","d","e","n","t","i","f","i","e","d">>,
    <<"M","a","l","a","r","i","a"," ","c","a","s","e","s">>,
    <<"T","B","-","C","a","s","e","s">>,
    <<"D","i","a","r","r","h","e","a"," ","c","a","s","e","s">>,
    <<"F","o","o"," ","B","a","r">>,
    <<"O","P","D"," ","v","i","s","i","t","s">>,
    <<"i","n","f","a","n","t"," ","m","o","r","t","a","l","i","t","y">>,
    <<"S","t","u","b","b","o","r","n">>
  }

MappingKeys == {INDICATOR_MAPPING[i][1] : i \in 1..Len(INDICATOR_MAPPING)}

MappingValues == {INDICATOR_MAPPING[i][2] : i \in 1..Len(INDICATOR_MAPPING)}

RawNames == MappingKeys \cup MappingValues \cup ExtraNames

\* a respelling of a name that changes only letter case, hyphen/underscore
\* versus space, or the length of whitespace runs
Spellings == {"same", "upper", "title", "hyphen", "underscore", "wide"}

Respell(s, how) ==
    CASE how = "same"       -> s
      [] how = "upper"      -> StrUpper(s)
      [] how = "title"      -> Title(s)
      [] how = "hyphen"     -> [i \in 1..Len(s) |-> IF s[i] = " " THEN "-" ELSE s[i]]
      [] how = "underscore" -> [i \in 1..Len(s) |-> IF s[i] = " " THEN "_" ELSE s[i]]
      [] how = "wide"       -> Replace(s, <<" ">>, <<" "," ">>)

NormInit ==
    /\ nIn \in RawNames
    /\ \E how \in Spellings : nAlt = Respell(nIn, how)
    /\ nOut = <<>>
    /\ nAltOut = <<>>
    /\ nTwice = <<>>
    /\ nPc = "start"

\* result = normalize_indicator_name(input_name)
NormalizeName ==
    /\ nPc = "start"
    /\ nOut' = normalize_indicator_name(nIn)
    /\ nPc' = "once"
    /\ UNCHANGED <<nIn, nAlt, nAltOut, nTwice, spikeVars, oneVars, riskVars,
                 dbVars, capVars, wardVars, statusVars,
                   restVars>>

\* the same call on the other spelling
NormalizeSpelling ==
    /\ nPc = "once"
    /\ nAltOut' = normalize_indicator_name(nAlt)
    /\ nPc' = "both"
    /\ UNCHANGED <<nIn, nAlt, nOut, nTwice, spikeVars, oneVars, riskVars,
                 dbVars, capVars, wardVars, statusVars,
                   restVars>>

\* the normaliser applied to a name that is already its own output
NormalizeAgain ==
    /\ nPc = "both"
    /\ nTwice' = normalize_indicator_name(nOut)
    /\ nPc' = "twice"
    /\ UNCHANGED <<nIn, nAlt, nOut, nAltOut, spikeVars, oneVars, riskVars,
                 dbVars, capVars, wardVars, statusVars,
                   restVars>>

(***************************************************************************)
(* Properties of the normaliser.                                           *)
(***************************************************************************)

\* C6: the normaliser is idempotent: normalising its own output changes
\* nothing, in particular every canonical name is a fixed point.
C6_Idempotent == nPc = "twice" => nTwice = nOut

\* C7: two non-empty names that differ only in letter case, in
\* hyphen/underscore versus space or in runs of whitespace normalise to the
\* same name, also when they match no mapping entry and no keyword.
C7_SpellingInsensitive ==
    (nPc \in {"both", "twice"} /\ nIn # <<>> /\ nAlt # <<>>) => nAltOut = nOut

\* C8: every key of INDICATOR_MAPPING normalises to its own table value;
\* no earlier key that occurs in it shadows it.
C8_KeysMapToOwnValue ==
    nPc \in {"once", "both", "twice"} =>
        \A i \in 1..Len(INDICATOR_MAPPING) :
            nIn = INDICATOR_MAPPING[i][1] => nOut = INDICATOR_MAPPING[i][2]

\* 'maternal deaths' contains the keys 'maternal death' and 'death', which
\* map to different canonical names
C8_Witness ==
    /\ nPc = "once"
    /\ nIn = <<"m","a","t","e","r","n","a","l"," ","d","e","a","t","h","s">>
    /\ nOut = <<"M","a","t","e","r","n","a","l"," ","M","o","r","t","a","l","i","t","y">>

(***************************************************************************)
(* Rationals <<num, den>> with den >= 0; den = 0 is NaN.                   *)
(***************************************************************************)

NaN == <<0, 0>>

IsNaN(q) == q[2] = 0

\* q > 0 as pandas evaluates it: False on NaN
RatPositive(q) == q[2] > 0 /\ q[1] > 0

RatEq(p, q) == p[2] > 0 /\ q[2] > 0 /\ p[1] * q[2] = q[1] * p[2]

RatLess(p, q) == p[2] > 0 /\ q[2] > 0 /\ p[1] * q[2] < q[1] * p[2]

(***************************************************************************)
(* Ordering of strings and stable sorting of frames.                       *)
(***************************************************************************)

\* a < b for Python strings
StrLess(a, b) ==
    \E i \in 1..(Len(a) + 1) :
        /\ i <= Len(b)
        /\ \A j \in 1..(i - 1) : a[j] = b[j]
        /\ (i = Len(a) + 1 \/ Ord(a[i]) < Ord(b[i]))

\* the pairs of positions <<i, j>> of s for which Less holds
IndexPairs(s) == (1..Len(s)) \X (1..Len(s))

\* stable sort of the sequence t, where less holds the pairs <<i, j>> with
\* t[i] strictly before t[j] in the sort order (a strict weak order): an
\* element comes after the smaller ones and after the earlier equal ones
StableSort(t, less) ==
    LET rank == SelectSeq(
                    [i \in 1..Len(t) |->
                        1 + Cardinality({j \in 1..Len(t) :
                                \/ <<j, i>> \in less
                                \/ <<i, j>> \notin less /\ j < i})],
                    LAMBDA r : TRUE)
    IN  [p \in 1..Len(t) |-> t[CHOOSE i \in 1..Len(t) : rank[i] = p]]

RECURSIVE SumSeq(_)
SumSeq(s) == IF Len(s) = 0 THEN 0 ELSE s[1] + SumSeq(Tail(s))

(***************************************************************************)
(* engines/monthly_loader.py                                               *)
(***************************************************************************)

MONTH_MAP == <<
    <<<<"j","a","n","u","a","r","y">>, 1>>,
    <<<<"f","e","b","r","u","a","r","y">>, 2>>,
    <<<<"m","a","r","c","h">>, 3>>,
    <<<<"a","p","r","i","l">>, 4>>,
    <<<<"m","a","y">>, 5>>,
    <<<<"j","u","n","e">>, 6>>,
    <<<<"j","u","l","y">>, 7>>,
    <<<<"a","u","g","u","s","t">>, 8>>,
    <<<<"s","e","p","t","e","m","b","e","r">>, 9>>,
    <<<<"o","c","t","o","b","e","r">>, 10>>,
    <<<<"n","o","v","e","m","b","e","r">>, 11>>,
    <<<<"d","e","c","e","m","b","e","r">>, 12>>
  >>

numeric_cols == <<"reportedvalueforpublicfacility",
                  "reportedvalueforprivatefacility",
                  "reportedvalueforrural",
                  "reportedvalueforurban">>

\* df[numeric_cols].sum(axis=1): a cell is <<v>> or <<>> (NaN), NaN is
\* skipped
RowTotal(row) ==
    SumSeq([i \in 1..Len(numeric_cols) |->
                IF row[numeric_cols[i]] = <<>> THEN 0
                ELSE row[numeric_cols[i]][1]])

\* df["month"].map(MONTH_MAP) after strip and lower; 0 when unmapped
MonthNum(month) ==
    LET m == StrLower(Strip(month))
        hit == {i \in 1..Len(MONTH_MAP) : MONTH_MAP[i][1] = m}
    IN  IF hit = {} THEN 0 ELSE MONTH_MAP[CHOOSE i \in hit : TRUE][2]

load_monthly_health_data(csv) ==
    LET loaded == [i \in 1..Len(csv) |->
                    [district      |-> csv[i].district,
                     indicatorname |-> csv[i].indicatorname,
                     month_num     |-> MonthNum(csv[i].month),
                     total_cases   |-> RowTotal(csv[i])]]
    IN  SelectSeq(loaded, LAMBDA r : r.month_num # 0)

(***************************************************************************)
(* engines/spike_engine.py                                                 *)
(***************************************************************************)

MIN_CASE_THRESHOLD == 75

\* SPIKE_MULTIPLIER = 1.75 = 7/4
SPIKE_MULTIPLIER == <<7, 4>>

ROLLING_WINDOW == 3

min_periods_one == ROLLING_WINDOW - 2

\* rolling(..., min_periods=2)
min_periods == 2

DISEASE_KEYWORDS == <<
    <<"m","a","l","a","r","i","a">>,
    <<"d","e","n","g","u","e">>,
    <<"t","u","b","e","r","c","u","l","o","s","i","s">>,
    <<"t","b"," ">>,
    <<"h","i","v">>,
    <<"s","t","i">>,
    <<"r","t","i">>,
    <<"h","e","p","a","t","i","t","i","s">>,
    <<"e","n","c","e","p","h","a","l","i","t","i","s">>,
    <<"d","i","a","r","r","h","e","a">>,
    <<"c","h","o","l","e","r","a">>,
    <<"i","n","f","l","u","e","n","z","a">>,
    <<"p","n","e","u","m","o","n","i","a">>,
    <<"m","e","a","s","l","e","s">>,
    <<"m","a","t","e","r","n","a","l"," ","d","e","a","t","h">>,
    <<"n","e","o","n","a","t","a","l"," ","d","e","a","t","h">>,
    <<"d","e","a","t","h">>,
    <<"l","o","w"," ","b","i","r","t","h"," ","w","e","i","g","h","t">>,
    <<"h","b"," ","l","e","v","e","l","<","7">>,
    <<"h","y","p","e","r","t","e","n","s","i","o","n">>
  >>

\* df["indicatorname"].str.lower().str.contains("|".join(DISEASE_KEYWORDS))
IsDiseaseIndicator(indicatorname) ==
    LET lowered == SelectSeq(StrLower(indicatorname), LAMBDA c : TRUE)
    IN  \E i \in 1..Len(DISEASE_KEYWORDS) :
            Contains(lowered, DISEASE_KEYWORDS[i])

\* the group key (district, indicatorname, month_num) and its order
KeyOf(r) == <<r.district, r.indicatorname, r.month_num>>

KeyLessNone(a, b) == FALSE

KeyLess(a, b) ==
    IF a.district # b.district THEN StrLess(a.district, b.district)
    ELSE IF a.indicatorname # b.indicatorname
         THEN StrLess(a.indicatorname, b.indicatorname)
         ELSE a.month_num < b.month_num

\* groupby([district, indicatorname, month_num])["total_cases"].sum(),
\* then sort_values by the same three columns
Aggregate(df) ==
    LET first == {i \in 1..Len(df) :
                    \A j \in 1..(i - 1) : KeyOf(df[j]) # KeyOf(df[i])}
        groups == SelectSeq([i \in 1..Len(df) |-> i], LAMBDA i : i \in first)
        summed == [g \in 1..Len(groups) |->
                    LET r == df[groups[g]]
                        members == SelectSeq(df, LAMBDA x : KeyOf(x) = KeyOf(r))
                    IN  [district      |-> r.district,
                         indicatorname |-> r.indicatorname,
                         month_num     |-> r.month_num,
                         total_cases   |->
                            SumSeq([k \in 1..Len(members) |->
                                        members[k].total_cases])]]
        frame == SelectSeq(summed, LAMBDA r : TRUE)
    IN  StableSort(frame, {ij \in IndexPairs(frame) :
                                KeyLess(frame[ij[1]], frame[ij[2]])})

FloorFilterStrict(rows) ==
    SelectSeq(rows, LAMBDA r : r.total_cases > MIN_CASE_THRESHOLD)

\* grouped[grouped["total_cases"] >= MIN_CASE_THRESHOLD]
FloorFilter(rows) ==
    SelectSeq(rows, LAMBDA r : r.total_cases >= MIN_CASE_THRESHOLD)

\* x.rolling(ROLLING_WINDOW, min_periods=2).mean() within each
\* (district, indicatorname) group, over the rows in frame order
RollingBaseline(rows) ==
    [i \in 1..Len(rows) |->
        LET same == {j \in 1..i : /\ rows[j].district = rows[i].district
                                  /\ rows[j].indicatorname = rows[i].indicatorname}
            window == {j \in same :
                        Cardinality({k \in same : k > j}) < ROLLING_WINDOW}
            total == SumSeq([k \in 1..Len(rows) |->
                                IF k \in window THEN rows[k].total_cases ELSE 0])
        IN  [district      |-> rows[i].district,
             indicatorname |-> rows[i].indicatorname,
             month_num     |-> rows[i].month_num,
             total_cases   |-> rows[i].total_cases,
             baseline      |-> IF Cardinality(window) >= min_periods
                               THEN <<total, Cardinality(window)>>
                               ELSE NaN]]

IsSpikeInclusive(r) ==
    r.total_cases * r.baseline[2] * SPIKE_MULTIPLIER[2]
        >= r.baseline[1] * SPIKE_MULTIPLIER[1]

\* grouped["total_cases"] > grouped["baseline"] * SPIKE_MULTIPLIER
IsSpike(r) ==
    r.total_cases * r.baseline[2] * SPIKE_MULTIPLIER[2]
        > r.baseline[1] * SPIKE_MULTIPLIER[1]

\* (total_cases - baseline) / baseline * 100
SurgePercent(r) ==
    <<(r.total_cases * r.baseline[2] - r.baseline[1]) * 100, r.baseline[1]>>

\* sort_values("surge_percent", ascending=False)
SurgeDescending(a, b) == RatLess(b.surge_percent, a.surge_percent)

\* rows with a positive baseline that are spikes, largest surge first
Outbreaks(withBaseline) ==
    LET positive == SelectSeq(withBaseline, LAMBDA r : RatPositive(r.baseline))
        spikes == SelectSeq(positive, IsSpike)
        scored == [i \in 1..Len(spikes) |->
                    [district      |-> spikes[i].district,
                     indicatorname |-> spikes[i].indicatorname,
                     month_num     |-> spikes[i].month_num,
                     total_cases   |-> spikes[i].total_cases,
                     baseline      |-> spikes[i].baseline,
                     surge_percent |-> SurgePercent(spikes[i])]]
        frame == SelectSeq(scored, LAMBDA r : TRUE)
    IN  StableSort(frame, {ij \in IndexPairs(frame) :
                                SurgeDescending(frame[ij[1]], frame[ij[2]])})

(***************************************************************************)
(* The monthly dataset the batch detector is run on.                       *)
(***************************************************************************)

\* number of reporting months in the dataset
NumMonths == 3

\* monthly totals reported for the main series; 0 stands for no report
SeriesCounts == {0, 80, 90, 300}

\* totals of the one additional report
ExtraCounts == {40, 75}

\* "TB cases", and "TB tested" (an activity that names a disease)
SeriesNames == {<<"T","B"," ","c","a","s","e","s">>,
                <<"T","B"," ","t","e","s","t","e","d">>}

\* other spellings: "Tb cases", and "TB-Cases"
OtherNames == {<<"T","B"," ","c","a","s","e","s">>,
               <<"T","b"," ","c","a","s","e","s">>,
               <<"T","B","-","C","a","s","e","s">>}

Districts == {<<"D">>, <<"E">>}

\* the month as written in the CSV
MonthName(m) == Title(MONTH_MAP[m][1])

CsvRow(district, name, m, pub, rural) ==
    [district                        |-> district,
     indicatorname                   |-> name,
     month                           |-> MonthName(m),
     reportedvalueforpublicfacility  |-> pub,
     reportedvalueforprivatefacility |-> <<>>,
     reportedvalueforrural           |-> rural,
     reportedvalueforurban           |-> <<0>>]

SeriesRows(name, series) ==
    LET all == [m \in 1..NumMonths |->
                    CsvRow(<<"D">>, name, m, <<series[m]>>, <<>>)]
    IN  SelectSeq(all, LAMBDA r : r.reportedvalueforpublicfacility # <<0>>)

\* a second group, district E, reporting in each of the first three months:
\* 80, 80, 300 (the surge of 80, 80, 300 in district D), and 80, 560, 900
\* (560 = 1.75 x mean(80, 560))
SecondSeries ==
    {[m \in 1..3 |-> CsvRow(<<"E">>, <<"T","B"," ","c","a","s","e","s">>, m,
                            <<series[m]>>, <<>>)] :
        series \in {<<80, 80, 300>>, <<80, 560, 900>>}}

ExtraRows ==
    {<<>>} \cup SecondSeries \cup
    {<<CsvRow(<<"D">>, n, m, <<>>, <<c>>)>> :
        n \in OtherNames, m \in 1..NumMonths, c \in ExtraCounts} \cup
    {<<CsvRow(<<"E">>, <<"T","B"," ","c","a","s","e","s">>, m, <<>>, <<c>>)>> :
        m \in 1..NumMonths, c \in ExtraCounts}

SpikeInit ==
    /\ \E name \in SeriesNames, series \in [1..NumMonths -> SeriesCounts],
          extra \in ExtraRows :
            csvRows = SeriesRows(name, series) \o extra
    /\ grouped = <<>>
    /\ floored = <<>>
    /\ outbreaks = <<>>
    /\ sPc = "start"

\* the frames of detect_outbreaks() on the rows csv of health.csv
BatchFrames(csv) ==
    LET df == SelectSeq(load_monthly_health_data(csv),
                        LAMBDA r : IsDiseaseIndicator(r.indicatorname))
        agg == Aggregate(df)
        withBaseline == RollingBaseline(FloorFilter(agg))
    IN  [grouped   |-> agg,
         floored   |-> withBaseline,
         outbreaks |-> Outbreaks(withBaseline)]

\* GET /outbreaks: detect_outbreaks()
detect_outbreaks ==
    /\ sPc = "start"
    /\ LET run == BatchFrames(csvRows)
       IN  /\ grouped' = run.grouped
           /\ floored' = run.floored
           /\ outbreaks' = run.outbreaks
    /\ sPc' = "done"
    /\ UNCHANGED <<csvRows, normVars, oneVars, riskVars,
                 dbVars, capVars, wardVars, statusVars,
                   restVars>>

\* the same dataset with its rows in another order: reversed or rotated
Reverse(s) == [i \in 1..Len(s) |-> s[Len(s) + 1 - i]]

Rotate(s, k) == SubSeq(s, k + 1, Len(s)) \o SubSeq(s, 1, k)

Reorderings(s) == {Reverse(s)} \cup {Rotate(s, k) : k \in 1..(Len(s) - 1)}

\* district D reporting 80 or 300 cases each month, alone or with a second
\* group in district E
OrderInit ==
    /\ \E series \in [1..NumMonths -> {80, 300}],
          extra \in {<<>>} \cup SecondSeries :
            csvRows = SeriesRows(<<"T","B"," ","c","a","s","e","s">>, series)
                        \o extra
    /\ permRows \in Reorderings(csvRows)
    /\ grouped = <<>>
    /\ floored = <<>>
    /\ outbreaks = <<>>
    /\ sPc = "start"
    /\ second_run = <<>>
    /\ permuted_run = <<>>

\* detect_outbreaks() a second time on the unchanged health.csv
detect_outbreaks_again ==
    /\ sPc = "done"
    /\ second_run = <<>>
    /\ second_run' = <<BatchFrames(csvRows).outbreaks>>
    /\ UNCHANGED <<permRows, permuted_run, normVars, spikeVars, oneVars,
                   riskVars, dbVars, capVars, wardVars, statusVars, failVars, passVars,
                   ingestVars, ambulanceVars, wsVars>>

\* detect_outbreaks() on a health.csv holding the same rows in another order
detect_outbreaks_permuted ==
    /\ permuted_run = <<>>
    /\ permuted_run' = <<BatchFrames(permRows).outbreaks>>
    /\ UNCHANGED <<permRows, second_run, normVars, spikeVars, oneVars,
                   riskVars, dbVars, capVars, wardVars, statusVars, failVars, passVars,
                   ingestVars, ambulanceVars, wsVars>>

\* activity_words of classify_signal: what the engine itself calls a
\* healthcare activity rather than a disease signal
activity_words == <<
    <<"i","m","m","u","n","i","s","a","t","i","o","n">>,
    <<"v","a","c","c","i","n","a","t","i","o","n">>,
    <<"s","t","e","r","i","l","i","z","a","t","i","o","n">>,
    <<"t","e","s","t","e","d">>,
    <<"s","c","r","e","e","n","e","d">>
  >>

IsActivityIndicator(indicator) ==
    \E i \in 1..Len(activity_words) :
        Contains(StrLower(indicator), activity_words[i])

(***************************************************************************)
(* Properties of the batch detector.                                       *)
(***************************************************************************)

SameGroup(a, b) == a.district = b.district /\ a.indicatorname = b.indicatorname

SameKey(a, b) == SameGroup(a, b) /\ a.month_num = b.month_num

\* C1: for one (geography, indicator) group with period totals 80, 90, 300
\* the detector reports period 3 with baseline 85, the mean of the two
\* earlier periods, and surge_percent (300 - 85) / 85 x 100.
C1_BaselineOfEarlierPeriods ==
    (/\ sPc = "done"
     /\ Len(grouped) = 3
     /\ \A i \in 1..3 : grouped[i].month_num = i
     /\ grouped[1].total_cases = 80
     /\ grouped[2].total_cases = 90
     /\ grouped[3].total_cases = 300)
    => \E i \in 1..Len(outbreaks) :
            /\ outbreaks[i].month_num = 3
            /\ RatEq(outbreaks[i].baseline, <<85, 1>>)
            /\ RatEq(outbreaks[i].surge_percent, <<(300 - 85) * 100, 85>>)

\* C2: no returned row has an aggregated total below the floor of 75, and an
\* aggregate of exactly 75 survives the floor filter.
C2_FloorRespected ==
    sPc = "done" =>
        /\ \A i \in 1..Len(outbreaks) :
                /\ outbreaks[i].total_cases >= MIN_CASE_THRESHOLD
                /\ \E g \in 1..Len(grouped) :
                        /\ SameKey(grouped[g], outbreaks[i])
                        /\ grouped[g].total_cases = outbreaks[i].total_cases
        /\ \A g \in 1..Len(grouped) :
                grouped[g].total_cases = MIN_CASE_THRESHOLD
                    => \E f \in 1..Len(floored) : SameKey(floored[f], grouped[g])

\* an aggregate of exactly 75 is kept and counts in the baseline of a
\* returned row
C2_Witness ==
    /\ sPc = "done"
    /\ \E i \in 1..Len(outbreaks), f \in 1..Len(floored) :
            /\ SameGroup(floored[f], outbreaks[i])
            /\ floored[f].total_cases = MIN_CASE_THRESHOLD

\* the earliest surviving period of the group of row i of the frame
EarliestOfGroup(frame, i) ==
    \A j \in 1..Len(frame) :
        SameGroup(frame[j], frame[i]) => frame[j].month_num >= frame[i].month_num

\* C3: no baseline is computed from fewer than 2 periods: the earliest
\* surviving period of a group has no baseline and is never returned, so a
\* group with a single surviving period contributes nothing.
C3_NoBaselineFromOnePeriod ==
    sPc = "done" =>
        /\ \A f \in 1..Len(floored) :
                /\ EarliestOfGroup(floored, f) => IsNaN(floored[f].baseline)
                /\ ~IsNaN(floored[f].baseline) => floored[f].baseline[2] >= 2
        /\ \A i \in 1..Len(outbreaks) :
                \E f \in 1..Len(floored) :
                    /\ SameKey(floored[f], outbreaks[i])
                    /\ ~EarliestOfGroup(floored, f)

\* a group with one surviving period next to a group that is reported
C3_Witness ==
    /\ sPc = "done"
    /\ Len(outbreaks) > 0
    /\ \E f \in 1..Len(floored) :
            /\ \A j \in 1..Len(floored) : SameGroup(floored[j], floored[f]) => j = f
            /\ \A i \in 1..Len(outbreaks) : ~SameGroup(outbreaks[i], floored[f])

\* the total of the row f of the frame is exactly 1.75 x its baseline
ExactlyAtMultiplier(frame, f) ==
    /\ ~IsNaN(frame[f].baseline)
    /\ frame[f].total_cases * frame[f].baseline[2] * SPIKE_MULTIPLIER[2]
            = frame[f].baseline[1] * SPIKE_MULTIPLIER[1]

\* C25: every returned row has baseline > 0 and total_cases strictly above
\* 1.75 x baseline, hence surge_percent > 75; a row whose total is exactly
\* 1.75 x its baseline is not returned; the rows are in descending order of
\* surge_percent.
C25_StrictSpikeDescending ==
    sPc = "done" =>
        /\ \A i \in 1..Len(outbreaks) :
                /\ RatPositive(outbreaks[i].baseline)
                /\ RatLess(<<outbreaks[i].baseline[1] * SPIKE_MULTIPLIER[1],
                             outbreaks[i].baseline[2] * SPIKE_MULTIPLIER[2]>>,
                           <<outbreaks[i].total_cases, 1>>)
                /\ RatLess(<<75, 1>>, outbreaks[i].surge_percent)
        /\ \A f \in 1..Len(floored) :
                ExactlyAtMultiplier(floored, f) =>
                    \A i \in 1..Len(outbreaks) : ~SameKey(outbreaks[i], floored[f])
        /\ \A i \in 1..Len(outbreaks), j \in 1..Len(outbreaks) :
                i < j => ~RatLess(outbreaks[i].surge_percent,
                                  outbreaks[j].surge_percent)

\* a period of 560 cases after one of 80 (baseline 320, 320 x 1.75 = 560)
\* is not returned, next to two returned rows of different surge
C25_Witness ==
    /\ sPc = "done"
    /\ \E f \in 1..Len(floored) :
            /\ ExactlyAtMultiplier(floored, f)
            /\ floored[f].total_cases = 560
            /\ \A i \in 1..Len(outbreaks) : ~SameKey(outbreaks[i], floored[f])
    /\ Len(outbreaks) = 2
    /\ RatLess(outbreaks[2].surge_percent, outbreaks[1].surge_percent)

\* C22: a second run on the unchanged records and a run on the same records
\* in another order return the rows of the first run in the same order,
\* rows of equal surge_percent included.
C22_OrderIndependent ==
    sPc = "done" =>
        /\ second_run # <<>> => second_run[1] = outbreaks
        /\ permuted_run # <<>> => permuted_run[1] = outbreaks

\* districts D and E both report 80, 80, 300: two rows of equal
\* surge_percent, returned by the three runs
C22_Witness ==
    /\ sPc = "done"
    /\ second_run # <<>>
    /\ permuted_run # <<>>
    /\ permRows # csvRows
    /\ Len(outbreaks) = 2
    /\ RatEq(outbreaks[1].surge_percent, outbreaks[2].surge_percent)
    /\ permRows[1].district = <<"E">>

\* C4: no outbreak is reported for an activity/operational indicator, also
\* when its name contains a disease keyword.
C4_NoActivityOutbreak ==
    sPc = "done" =>
        \A i \in 1..Len(outbreaks) : ~IsActivityIndicator(outbreaks[i].indicatorname)

\* C5: records of one geography and period whose names normalise to the
\* same canonical name are aggregated into one group under that name.
C5_OneGroupPerCanonicalName ==
    sPc = "done" =>
        \A i, j \in 1..Len(grouped) :
            (/\ i # j
             /\ grouped[i].district = grouped[j].district
             /\ grouped[i].month_num = grouped[j].month_num)
            => normalize_indicator_name(grouped[i].indicatorname)
                    # normalize_indicator_name(grouped[j].indicatorname)

(***************************************************************************)
(* core/data_access.py and engines/outbreak_engine.py                      *)
(***************************************************************************)

\* dict.get(k): <<v>> when the key is present, <<>> (None) when it is not
Get(r, k) == IF k \in DOMAIN r THEN <<r[k]>> ELSE <<>>

\* int(dict.get(k, default))
GetInt(r, k, default) == IF k \in DOMAIN r THEN r[k] ELSE default

\* DataAccess.read_last(n): the newest n records, newest first
read_last(store, n) ==
    LET m == IF Len(store) < n THEN Len(store) ELSE n
    IN  [i \in 1..m |-> store[Len(store) + 1 - i]]

\* twice statistics.median(xs), xs not empty: the middle element of the
\* sorted list, or the mean of the two middle ones
Median2(xs) ==
    LET sorted == StableSort(xs, {ij \in IndexPairs(xs) : xs[ij[1]] < xs[ij[2]]})
        n == Len(sorted)
    IN  IF n % 2 = 1 THEN 2 * sorted[(n + 1) \div 2]
        ELSE sorted[n \div 2] + sorted[n \div 2 + 1]

threshold == 200

\* storage.read_last(50)
recent_window == 50

\* tc / med >= 3, with med = med2 / 2 and med # 0
RatioReaches(tc, med2) ==
    IF med2 > 0 THEN 2 * tc >= 3 * med2 ELSE 2 * tc <= 3 * med2

\* the same-indicator counts among the recent records
same_indicator(storage, record) ==
    LET recent == read_last(storage, recent_window)
        same == SelectSeq(recent,
                    LAMBDA r : Get(r, "indicatorname") = Get(record, "indicatorname"))
    IN  [i \in 1..Len(same) |-> GetInt(same[i], "total_cases", 0)]

\* engines/outbreak_engine.py: detect_outbreaks(storage, record)
detect_outbreaks_record(storage, record) ==
    LET tc == GetInt(record, "total_cases", 0)
        same == same_indicator(storage, record)
    IN  IF tc >= threshold THEN TRUE
        ELSE IF Len(same) = 0 THEN FALSE
        ELSE IF Median2(same) = 0 THEN tc > 0
        ELSE RatioReaches(tc, Median2(same))

\* largest number of records kept in the store
MaxStored == 3

IndicatorNames == {"dengue", "malaria"}

StoredCounts == {0, 10, 20}

RecordCounts == {0, 1, 29, 30, 31, 45, 199, 200}

OneInit ==
    /\ ingested_store = <<>>
    /\ oneRecord = [indicatorname |-> "dengue", total_cases |-> 0]
    /\ oneResult = FALSE
    /\ oPc = "start"

\* storage.append(record)
StorageAppend ==
    /\ Len(ingested_store) < MaxStored
    /\ \E name \in IndicatorNames, c \in StoredCounts :
            ingested_store' = Append(ingested_store, [indicatorname |-> name, total_cases |-> c])
    /\ UNCHANGED <<oneRecord, oneResult, oPc, normVars, spikeVars, riskVars,
                 dbVars, capVars, wardVars, statusVars,
                   restVars>>

\* detect_outbreaks(storage, record)
DetectRecord ==
    /\ \E name \in IndicatorNames, c \in RecordCounts :
            LET record == [indicatorname |-> name, total_cases |-> c]
            IN  /\ oneRecord' = record
                /\ oneResult' = detect_outbreaks_record(ingested_store, record)
    /\ oPc' = "checked"
    /\ UNCHANGED <<ingested_store, normVars, spikeVars, riskVars,
                 dbVars, capVars, wardVars, statusVars,
                   restVars>>

\* C9: the single-record check returns true exactly when the count is >= 200,
\* or there is same-indicator history and either its median is 0 and the
\* count is > 0, or the median is positive and count / median strictly
\* exceeds 3.
C9_StrictRatio ==
    oPc = "checked" =>
        LET tc == oneRecord.total_cases
            history == same_indicator(ingested_store, oneRecord)
        IN  oneResult <=>
                \/ tc >= 200
                \/ /\ Len(history) > 0
                   /\ \/ Median2(history) = 0 /\ tc > 0
                      \/ Median2(history) > 0 /\ 2 * tc > 3 * Median2(history)

(***************************************************************************)
(* models/health_loader.py and models/risk_engine.py                       *)
(***************************************************************************)

load_health_data(csv) ==
    [i \in 1..Len(csv) |->
        [district      |-> csv[i].district,
         codesection   |-> csv[i].codesection,
         indicatorname |-> csv[i].indicatorname,
         total_cases   |-> RowTotal(csv[i])]]

MATERNAL_SECTIONS == <<<<"M","1">>, <<"M","2">>, <<"M","3">>, <<"M","4">>>>

\* str.startswith(tuple(MATERNAL_SECTIONS))
IsMaternal(codesection) ==
    \E i \in 1..Len(MATERNAL_SECTIONS) : MatchAt(codesection, MATERNAL_SECTIONS[i], 1)

\* the alternatives of the four str.contains(..., case=False) patterns
AnemiaPattern == {<<"h","b"," ","l","e","v","e","l","<","7">>}

HypertensionPattern == {<<"h","y","p","e","r","t","e","n","s","i","o","n">>}

LowWeightPattern == {<<"w","e","i","g","h","t"," ","l","e","s","s"," ","t","h","a","n">>,
                     <<"l","o","w"," ","b","i","r","t","h">>}

PregnanciesPattern == {<<"p","r","e","g","n","a","n","t"," ","w","o","m","e","n"," ","r","e","g","i","s","t","e","r","e","d">>}

MatchesPattern(indicatorname, pattern) ==
    LET lowered == SelectSeq(StrLower(indicatorname), LAMBDA c : TRUE)
    IN  \E alt \in pattern : Contains(lowered, alt)

\* maternal_df[...contains(pattern)].groupby("district")["total_cases"].sum():
\* the districts of the series, and the sum of one district
SeriesIndex(maternal_df, pattern) ==
    {maternal_df[i].district : i \in
        {j \in 1..Len(maternal_df) : MatchesPattern(maternal_df[j].indicatorname, pattern)}}

SeriesSum(maternal_df, pattern, district) ==
    SumSeq([i \in 1..Len(maternal_df) |->
                IF /\ maternal_df[i].district = district
                   /\ MatchesPattern(maternal_df[i].indicatorname, pattern)
                THEN maternal_df[i].total_cases ELSE 0])

\* a cell of the concatenated frame after fillna(0)
FillZero(maternal_df, pattern, district) ==
    IF district \in SeriesIndex(maternal_df, pattern)
    THEN SeriesSum(maternal_df, pattern, district) ELSE 0

Max3Sum(a, b, c) == a + b + c

\* risk_events.max(axis=1)
Max3(a, b, c) == SetMax({a, b, c})

\* the set of districts as a sorted index
SortedIndex(ds) ==
    [p \in 1..Cardinality(ds) |->
        CHOOSE d \in ds : Cardinality({e \in ds : StrLess(e, d)}) = p - 1]

\* lines 51-66: the three sums per district and their maximum
RiskEvents(maternal_df) ==
    LET index == SortedIndex(SeriesIndex(maternal_df, AnemiaPattern)
                        \cup SeriesIndex(maternal_df, HypertensionPattern)
                        \cup SeriesIndex(maternal_df, LowWeightPattern))
    IN  [i \in 1..Len(index) |->
            LET a == FillZero(maternal_df, AnemiaPattern, index[i])
                h == FillZero(maternal_df, HypertensionPattern, index[i])
                w == FillZero(maternal_df, LowWeightPattern, index[i])
            IN  [district         |-> index[i],
                 severe_anemia    |-> a,
                 hypertension     |-> h,
                 low_birth_weight |-> w,
                 risk_events      |-> Max3(a, h, w)]]

\* (risk_events / pregnancies) * 100 and * 1000
RiskScore(risk_events, pregnancies) == <<risk_events * 100, pregnancies>>

RiskPer1000(risk_events, pregnancies) == <<risk_events * 1000, pregnancies>>

RiskAscending(a, b) == RatLess(a.risk_score, b.risk_score)

\* sort_values(by="risk_score", ascending=False)
RiskDescending(a, b) == RatLess(b.risk_score, a.risk_score)

\* lines 68-93: the denominator, the two ratios and the ranking
RiskRanking(maternal_df, events) ==
    LET withPreg == SelectSeq(events, LAMBDA e :
                        /\ e.district \in SeriesIndex(maternal_df, PregnanciesPattern)
                        /\ SeriesSum(maternal_df, PregnanciesPattern, e.district) > 0)
        scored == [i \in 1..Len(withPreg) |->
                    LET p == SeriesSum(maternal_df, PregnanciesPattern,
                                       withPreg[i].district)
                    IN  [district      |-> withPreg[i].district,
                         risk_events   |-> withPreg[i].risk_events,
                         pregnancies   |-> p,
                         risk_score    |-> RiskScore(withPreg[i].risk_events, p),
                         risk_per_1000 |-> RiskPer1000(withPreg[i].risk_events, p)]]
        frame == SelectSeq(scored, LAMBDA r : TRUE)
    IN  StableSort(frame, {ij \in IndexPairs(frame) :
                                RiskDescending(frame[ij[1]], frame[ij[2]])})

\* the maternal rows of datasets/health.csv
AnemiaCounts == {0, 10}

HypertensionCounts == {0, 25}

LowWeightCounts == {0, 5}

PregnancyCounts == {0, 200}

RiskNames == <<<<"H","b"," ","l","e","v","e","l","<","7">>,
               <<"H","y","p","e","r","t","e","n","s","i","o","n">>,
               <<"L","o","w"," ","b","i","r","t","h"," ","w","e","i","g","h","t">>,
               <<"P","r","e","g","n","a","n","t"," ","w","o","m","e","n"," ","r","e","g","i","s","t","e","r","e","d">>>>

RiskSections == {<<"M","1">>, <<"M","4",".","1">>, <<"C","1">>}

RiskCsvRow(district, section, name, pub, urban) ==
    [district                        |-> district,
     codesection                     |-> section,
     indicatorname                   |-> name,
     reportedvalueforpublicfacility  |-> pub,
     reportedvalueforprivatefacility |-> <<>>,
     reportedvalueforrural           |-> <<0>>,
     reportedvalueforurban           |-> urban]

\* one row per indicator with a report; 0 stands for no report, except for
\* pregnancies, where a report of 0 is a row
DistrictRows(counts) ==
    LET all == [i \in 1..4 |->
                    RiskCsvRow(<<"D">>, <<"M","1">>, RiskNames[i], <<counts[i]>>, <<>>)]
    IN  SelectSeq(all, LAMBDA r :
            \/ r.reportedvalueforpublicfacility # <<0>>
            \/ r.indicatorname = RiskNames[4])

RiskDistricts == Districts \cup {<<"F">>}

RiskExtraRows ==
    {<<>>} \cup
    {<<RiskCsvRow(d, sec, RiskNames[i], <<>>, <<c>>)>> :
        d \in RiskDistricts, sec \in RiskSections, i \in 1..4, c \in {40}}

\* a second district: anemia reports with no pregnancy row, with a
\* pregnancy report of 0, or with 100 registered pregnancies
SecondDistrictRows ==
    {<<>>} \cup
    {<<RiskCsvRow(<<"E">>, <<"M","1">>, RiskNames[1], <<a>>, <<>>)>> \o preg :
        a \in {20, 60},
        preg \in {<<>>} \cup
                 {<<RiskCsvRow(<<"E">>, <<"M","1">>, RiskNames[4], <<p>>, <<>>)>> :
                    p \in {0, 100}}}

RiskInit ==
    /\ \E a \in AnemiaCounts, h \in HypertensionCounts, w \in LowWeightCounts,
          p \in PregnancyCounts, second \in SecondDistrictRows,
          extra \in RiskExtraRows :
            riskCsv = DistrictRows(<<a, h, w, p>>) \o second \o extra
    /\ riskEvents = <<>>
    /\ riskRows = <<>>
    /\ rPc = "start"

\* GET /risk: compute_risk()
compute_risk ==
    /\ rPc = "start"
    /\ LET maternal_df == SelectSeq(load_health_data(riskCsv),
                                    LAMBDA r : IsMaternal(r.codesection))
           events == SelectSeq(RiskEvents(maternal_df), LAMBDA e : TRUE)
       IN  /\ riskEvents' = events
           /\ riskRows' = RiskRanking(maternal_df, events)
    /\ rPc' = "done"
    /\ UNCHANGED <<riskCsv, normVars, spikeVars, oneVars,
                 dbVars, capVars, wardVars, statusVars,
                   restVars>>

\* no maternal row of the district reports the indicator of the pattern
NoReport(district, pattern) ==
    \A k \in 1..Len(riskCsv) :
        ~ /\ riskCsv[k].district = district
          /\ IsMaternal(riskCsv[k].codesection)
          /\ MatchesPattern(riskCsv[k].indicatorname, pattern)

C11_PositiveDenominatorDescending ==
    rPc = "done" =>
        /\ \A i \in 1..Len(riskRows) :
            /\ riskRows[i].pregnancies > 0
            /\ ~ NoReport(riskRows[i].district, PregnanciesPattern)
            /\ riskRows[i].risk_score[2] # 0
            /\ riskRows[i].risk_per_1000[2] # 0
        /\ \A i \in 1..Len(riskRows), j \in 1..Len(riskRows) :
            i < j => ~ RatLess(riskRows[i].risk_score, riskRows[j].risk_score)
        /\ \A i \in 1..Len(riskRows), j \in 1..Len(riskRows) :
            riskRows[i].district = riskRows[j].district => i = j

\* three districts have risk events, one is dropped for want of pregnancies
\* and the sort has moved the later district in front
C11_Witness ==
    /\ rPc = "done"
    /\ Len(riskEvents) = 3
    /\ Len(riskRows) = 2
    /\ riskRows[1].district = <<"E">>
    /\ RatLess(riskRows[2].risk_score, riskRows[1].risk_score)

(***************************************************************************)
(* The database read by the analytics services.  A timestamp is a whole    *)
(* number of hours; Now is datetime.utcnow() at the request.               *)
(***************************************************************************)

Now == 48

\* a health record: one reported event of a facility with its kind and count
HealthRecord(facility_id, transaction_type, total_cases, timestamp) ==
    [facility_id      |-> facility_id,
     transaction_type |-> transaction_type,
     total_cases      |-> total_cases,
     timestamp        |-> timestamp]

\* models/orm.py: class FacilityStatus
FacilityStatus(facility_id, beds_available, icu_available, timestamp) ==
    [facility_id    |-> facility_id,
     beds_available |-> beds_available,
     icu_available  |-> icu_available,
     timestamp      |-> timestamp]

\* models/orm.py: class Facility
Facility(facility_id, ward) == [facility_id |-> facility_id, ward |-> ward]

\* all sequences of at most n elements of S
SeqsUpTo(S, n) == UNION {[1..k -> S] : k \in 0..n}

\* HealthRepository.get_last_n_hours_by_facility: the records of the facility
\* with timestamp >= cutoff, oldest first
get_last_n_hours_by_facility(records, facility_id, hours) ==
    LET cutoff == Now - hours
        found == SelectSeq(records, LAMBDA r :
                    /\ r.facility_id = facility_id
                    /\ r.timestamp >= cutoff)
    IN  StableSort(found, {ij \in IndexPairs(found) :
                            found[ij[1]].timestamp < found[ij[2]].timestamp})

\* StatusRepository.get_latest_by_facility: <<row>> or <<>> for None
get_latest_by_facility(status, facility_id) ==
    LET found == SelectSeq(status, LAMBDA r : r.facility_id = facility_id)
        sorted == StableSort(found, {ij \in IndexPairs(found) :
                            found[ij[1]].timestamp > found[ij[2]].timestamp})
    IN  IF Len(sorted) = 0 THEN <<>> ELSE <<sorted[1]>>

(***************************************************************************)
(* Floating-point results: <<num, den>>, float("inf") and None.            *)
(***************************************************************************)

Inf == <<1, 0>>

None == <<>>

\* math.isfinite
isfinite(q) == q[2] # 0

RECURSIVE GCD(_, _)

GCD(a, b) == IF b = 0 THEN a ELSE GCD(b, a % b)

Abs(n) == IF n < 0 THEN 0 - n ELSE n

\* the fraction in lowest terms; a zero denominator is left alone
Reduce(q) ==
    LET g == GCD(Abs(q[1]), Abs(q[2]))
    IN  IF q[2] = 0 \/ g = 0 THEN q ELSE <<q[1] \div g, q[2] \div g>>

RatMul(p, q) == Reduce(<<p[1] * q[1], p[2] * q[2]>>)

RatDiv(p, q) == Reduce(<<p[1] * q[2], p[2] * q[1]>>)

RatAdd(p, q) == Reduce(<<p[1] * q[2] + q[1] * p[2], p[2] * q[2]>>)

\* int(q) for q >= 0
RatFloor(q) == q[1] \div q[2]

Pow10(n) == IF n = 0 THEN 1 ELSE IF n = 1 THEN 10 ELSE IF n = 2 THEN 100 ELSE 1000

\* round(q, ndigits) for q >= 0: the nearest multiple of 10^-ndigits; when q
\* lies exactly half way the double that stands for q is one side or the
\* other of it, and either neighbour can be the result
Round(q, ndigits) ==
    LET scale == Pow10(ndigits)
        n == q[1] * scale
        lo == n \div q[2]
        twice == 2 * (n - lo * q[2])
    IN  IF twice < q[2] THEN {<<lo, scale>>}
        ELSE IF twice > q[2] THEN {<<lo + 1, scale>>}
        ELSE {<<lo, scale>>, <<lo + 1, scale>>}

(***************************************************************************)
(* services/prediction_service.py                                          *)
(***************************************************************************)

bed_safety_margin == <<12, 10>>

icu_safety_margin == <<15, 10>>

BedCrisisInclusive(hours) == ~ RatLess(<<24, 1>>, hours)

\* line 101: beds_remaining_hours < 24
BedCrisis(hours) == RatLess(hours, <<24, 1>>)

\* line 162: icu_remaining_hours < 12
IcuCrisis(hours) == RatLess(hours, <<12, 1>>)

\* sum(r.total_cases for r in last_6h_records)
TotalAdmissions(found) == SumSeq([i \in 1..Len(found) |-> found[i].total_cases])

\* the locals of a prediction at its return
Frame(path, rate, available, hours, crisis) ==
    [path               |-> path,
     avg_admission_rate |-> rate,
     available          |-> available,
     remaining_hours    |-> hours,
     crisis_likely      |-> crisis]

BedResult(facility_id, rate, projected, hours, crisis) ==
    [facility_id              |-> facility_id,
     avg_admission_rate       |-> rate,
     projected_24h_admissions |-> projected,
     beds_remaining_hours     |-> hours,
     crisis_likely            |-> crisis]

IcuResult(facility_id, rate, projected, hours, crisis) ==
    [facility_id              |-> facility_id,
     avg_admission_rate       |-> rate,
     projected_24h_admissions |-> projected,
     icu_remaining_hours      |-> hours,
     crisis_likely            |-> crisis]

\* lines 89-104 and 151-164: the remaining hours, unrounded
RemainingHours(rate, available, margin) ==
    IF ~ RatPositive(rate) THEN Inf
    ELSE RatDiv(<<available, 1>>, RatMul(rate, margin))

\* round(hours, 1) if math.isfinite(hours) else None
RemainingSafe(hours) == IF isfinite(hours) THEN Round(hours, 1) ELSE {None}

\* PredictionService.predict_bed_demand: the pairs <<locals, returned dict>>
\* the call can end with
predict_bed_outcomes(records, status, facility_id) ==
    LET last_6h_records == get_last_n_hours_by_facility(records, facility_id, 6)
        total_admissions == TotalAdmissions(last_6h_records)
        avg_admission_rate == <<total_admissions, 6>>
        projected_24h == RatFloor(RatMul(avg_admission_rate, <<24, 1>>))
        latest_status == get_latest_by_facility(status, facility_id)
        beds_available == latest_status[1].beds_available
        beds_remaining_hours ==
            RemainingHours(avg_admission_rate, beds_available, bed_safety_margin)
        crisis_likely == IF ~ RatPositive(avg_admission_rate) THEN FALSE
                         ELSE BedCrisis(beds_remaining_hours)
    IN  IF Len(last_6h_records) = 0
        THEN {<<Frame("no_records", None, None, None, FALSE),
                BedResult(facility_id, <<0, 1>>, 0, None, FALSE)>>}
        ELSE IF latest_status = <<>>
        THEN {<<Frame("no_status", avg_admission_rate, None, None, FALSE),
                BedResult(facility_id, avg_admission_rate, projected_24h,
                          Inf, FALSE)>>}
        ELSE {<<Frame("status", avg_admission_rate, beds_available,
                      beds_remaining_hours, crisis_likely),
                BedResult(facility_id, rate, projected_24h, safe, crisis_likely)>> :
                    rate \in Round(avg_admission_rate, 2),
                    safe \in RemainingSafe(beds_remaining_hours)}

\* PredictionService.predict_icu_demand
predict_icu_outcomes(records, status, facility_id) ==
    LET last_6h_records == get_last_n_hours_by_facility(records, facility_id, 6)
        total_admissions == TotalAdmissions(last_6h_records)
        avg_admission_rate == <<total_admissions, 6>>
        projected_24h == RatFloor(RatMul(avg_admission_rate, <<24, 1>>))
        latest_status == get_latest_by_facility(status, facility_id)
        icu_available == latest_status[1].icu_available
        icu_remaining_hours ==
            RemainingHours(avg_admission_rate, icu_available, icu_safety_margin)
        crisis_likely == IF ~ RatPositive(avg_admission_rate) THEN FALSE
                         ELSE IcuCrisis(icu_remaining_hours)
    IN  IF Len(last_6h_records) = 0
        THEN {<<Frame("no_records", None, None, None, FALSE),
                IcuResult(facility_id, <<0, 1>>, 0, None, FALSE)>>}
        ELSE IF latest_status = <<>>
        THEN {<<Frame("no_status", avg_admission_rate, None, None, FALSE),
                IcuResult(facility_id, avg_admission_rate, projected_24h,
                          Inf, FALSE)>>}
        ELSE {<<Frame("status", avg_admission_rate, icu_available,
                      icu_remaining_hours, crisis_likely),
                IcuResult(facility_id, rate, projected_24h, safe, crisis_likely)>> :
                    rate \in Round(avg_admission_rate, 2),
                    safe \in RemainingSafe(icu_remaining_hours)}

\* the stores the predictions are asked about
MaxRecords == 2

MaxSnapshots == 2

CapRecords ==
    {HealthRecord("F1", "CASE", c, Now - 1) : c \in {0, 5, 12}} \cup
    {HealthRecord("F1", "CASE", 5, Now - 7),
     HealthRecord("F2", "CASE", 5, Now - 1),
     HealthRecord("F1", "VACCINATION", 5, Now - 1)}

CapSnapshots ==
    {FacilityStatus("F1", 4, 4, Now), FacilityStatus("F1", 24, 15, Now),
     FacilityStatus("F1", 23, 14, Now), FacilityStatus("F2", 0, 0, Now),
     FacilityStatus("F1", 0, 0, Now - 2)}

\* no two snapshots of a facility carry the same timestamp
DistinctSnapshots(status) ==
    \A i \in 1..Len(status), j \in 1..Len(status) :
        (/\ status[i].facility_id = status[j].facility_id
         /\ status[i].timestamp = status[j].timestamp) => i = j

CapFacilities ==
    <<Facility("F1", <<"W","a","r","d","-","A">>),
      Facility("F2", <<"W","a","r","d","-","B">>)>>

CapInit ==
    /\ facilities = CapFacilities
    /\ health_records \in SeqsUpTo(CapRecords, MaxRecords)
    /\ facility_status \in {st \in SeqsUpTo(CapSnapshots, MaxSnapshots) :
                                DistinctSnapshots(st)}
    /\ bed_frame = <<>> /\ bed_prediction = <<>>
    /\ icu_frame = <<>> /\ icu_prediction = <<>>
    /\ ward_order = <<>>

\* GET /predicted-capacity/{facility_id}
predict_bed_demand ==
    /\ bed_prediction = <<>>
    /\ \E out \in predict_bed_outcomes(health_records, facility_status, "F1") :
        /\ bed_frame' = out[1]
        /\ bed_prediction' = out[2]
    /\ UNCHANGED <<icu_frame, icu_prediction, dbVars, wardVars, statusVars,
                   normVars, spikeVars, oneVars, riskVars,
                   restVars>>

\* PredictionService.predict_icu_demand("F1")
predict_icu_demand ==
    /\ icu_prediction = <<>>
    /\ \E out \in predict_icu_outcomes(health_records, facility_status, "F1") :
        /\ icu_frame' = out[1]
        /\ icu_prediction' = out[2]
    /\ UNCHANGED <<bed_frame, bed_prediction, dbVars, wardVars, statusVars,
                   normVars, spikeVars, oneVars, riskVars,
                   restVars>>

\* |p - q| <= 1/20: q is p rounded to one decimal
WithinHalfTenth(p, q) ==
    /\ ~ RatLess(RatAdd(p, <<1, 20>>), q)
    /\ ~ RatLess(RatAdd(q, <<1, 20>>), p)

\* C12: with an admission rate > 0 and a status snapshot, predict_bed_demand
\* computes hours_remaining = beds_available / (rate x 1.2) and reports a
\* crisis exactly when hours_remaining < 24; predict_icu_demand uses the margin
\* 1.5 and the horizon 12.  12 admissions in 6 hours and 4 beds give rate 2,
\* hours_remaining 4 / 2.4 and a crisis.
C12_HoursAndCrisis ==
    /\ (bed_frame # <<>> /\ bed_frame.path = "status"
            /\ RatPositive(bed_frame.avg_admission_rate)) =>
        /\ RatEq(RatMul(bed_frame.remaining_hours,
                        RatMul(bed_frame.avg_admission_rate, <<12, 10>>)),
                 <<bed_frame.available, 1>>)
        /\ bed_frame.crisis_likely = RatLess(bed_frame.remaining_hours, <<24, 1>>)
        /\ bed_prediction.crisis_likely = bed_frame.crisis_likely
        /\ WithinHalfTenth(bed_frame.remaining_hours,
                           bed_prediction.beds_remaining_hours)
        /\ (RatEq(bed_frame.avg_admission_rate, <<2, 1>>)
                /\ bed_frame.available = 4) =>
            /\ RatEq(bed_frame.remaining_hours, <<40, 24>>)
            /\ bed_prediction.crisis_likely
    /\ (icu_frame # <<>> /\ icu_frame.path = "status"
            /\ RatPositive(icu_frame.avg_admission_rate)) =>
        /\ RatEq(RatMul(icu_frame.remaining_hours,
                        RatMul(icu_frame.avg_admission_rate, <<15, 10>>)),
                 <<icu_frame.available, 1>>)
        /\ icu_frame.crisis_likely = RatLess(icu_frame.remaining_hours, <<12, 1>>)
        /\ icu_prediction.crisis_likely = icu_frame.crisis_likely
        /\ WithinHalfTenth(icu_frame.remaining_hours,
                           icu_prediction.icu_remaining_hours)

\* the worked example: 12 admissions in the window and 4 beds
C12_Witness ==
    /\ bed_frame # <<>>
    /\ bed_frame.path = "status"
    /\ TotalAdmissions(get_last_n_hours_by_facility(health_records, "F1", 6)) = 12
    /\ bed_frame.available = 4
    /\ bed_prediction.crisis_likely
    /\ bed_prediction.beds_remaining_hours = <<17, 10>>

\* C13: whenever the admission rate is <= 0, no event in the last 6 hours
\* included, the prediction returns hours_remaining = 999 and crisis = false.
C13_SentinelWhenNoRate ==
    /\ (bed_prediction # <<>>
            /\ ~ RatPositive(bed_prediction.avg_admission_rate)) =>
        /\ bed_prediction.beds_remaining_hours = <<999, 1>>
        /\ ~ bed_prediction.crisis_likely
    /\ (icu_prediction # <<>>
            /\ ~ RatPositive(icu_prediction.avg_admission_rate)) =>
        /\ icu_prediction.icu_remaining_hours = <<999, 1>>
        /\ ~ icu_prediction.crisis_likely

\* a returned field is None or a finite number
FiniteOrNone(q) == q = None \/ isfinite(q)

\* C14: no result of predict_bed_demand or predict_icu_demand holds an
\* infinite or NaN value in any field, on any path.
C14_NoNonFiniteField ==
    /\ bed_prediction # <<>> =>
        /\ FiniteOrNone(bed_prediction.avg_admission_rate)
        /\ FiniteOrNone(bed_prediction.beds_remaining_hours)
    /\ icu_prediction # <<>> =>
        /\ FiniteOrNone(icu_prediction.avg_admission_rate)
        /\ FiniteOrNone(icu_prediction.icu_remaining_hours)

\* the counts of the CASE events of the facility in the last 6 hours
CaseEvents(facility_id) ==
    SelectSeq(health_records, LAMBDA r :
        /\ r.facility_id = facility_id
        /\ r.transaction_type = "CASE"
        /\ r.timestamp >= Now - 6)

\* C15: the admission rate is the number of CASE events of the facility in
\* the last 6 hours divided by 6; VACCINATION events, older events and events
\* of other facilities change neither the rate nor the projection.
C15_RateFromCaseEventsOnly ==
    bed_prediction # <<>> =>
        LET cases == TotalAdmissions(CaseEvents("F1"))
        IN  /\ bed_prediction.projected_24h_admissions = 4 * cases
            /\ \/ bed_prediction.avg_admission_rate = <<cases, 6>>
               \/ bed_prediction.avg_admission_rate \in Round(<<cases, 6>>, 2)
               \/ cases = 0 /\ bed_prediction.avg_admission_rate = <<0, 1>>

(***************************************************************************)
(* services/ward_risk_service.py                                           *)
(***************************************************************************)

RatMin(p, q) == IF RatLess(q, p) THEN q ELSE p

RatMax(p, q) == IF RatLess(p, q) THEN q ELSE p

\* the facility ids of the ward (the join with table facilities)
WardFacilities(facs, ward) ==
    {facs[i].facility_id : i \in {k \in 1..Len(facs) : facs[k].ward = ward}}

\* func.sum(HealthRecord.total_cases) over the ward's records of the last
\* `hours` hours; `result or 0`
WardCases(facs, records, ward, hours) ==
    LET found == SelectSeq(records, LAMBDA r :
                    /\ r.facility_id \in WardFacilities(facs, ward)
                    /\ r.timestamp >= Now - hours)
    IN  SumSeq([i \in 1..Len(found) |-> found[i].total_cases])

\* lines 40-58
get_ward_cases_24h(facs, records, ward) == WardCases(facs, records, ward, 24)

\* lines 60-78
get_ward_cases_6h(facs, records, ward) == WardCases(facs, records, ward, 6)

icu_beds_per_facility == 20

PressureUnclamped(pressure) == pressure

\* line 115: max(0.0, min(1.0, pressure))
ClampPressure(pressure) == RatMax(<<0, 1>>, RatMin(<<1, 1>>, pressure))

\* lines 80-115
get_ward_icu_pressure(facs, status, ward) ==
    LET reporting == {f \in WardFacilities(facs, ward) :
                        get_latest_by_facility(status, f) # <<>>}
        idx == SelectSeq(facs, LAMBDA f : f.facility_id \in reporting)
        total_icu_capacity == icu_beds_per_facility * Cardinality(reporting)
        total_icu_available ==
            SumSeq([i \in 1..Len(idx) |->
                get_latest_by_facility(status, idx[i].facility_id)[1].icu_available])
    IN  IF WardFacilities(facs, ward) = {} THEN <<0, 1>>
        ELSE IF total_icu_capacity = 0 THEN <<0, 1>>
        ELSE ClampPressure(<<total_icu_capacity - total_icu_available,
                             total_icu_capacity>>)

case_ceiling == 500

\* lines 161-169
RiskLevel(risk_score) ==
    IF ~ RatLess(risk_score, <<75, 1>>) THEN "CRITICAL"
    ELSE IF ~ RatLess(risk_score, <<50, 1>>) THEN "HIGH"
    ELSE IF ~ RatLess(risk_score, <<25, 1>>) THEN "MEDIUM"
    ELSE "LOW"

\* the locals of compute_ward_risk before the return (lines 137-169), from
\* what its three reads returned
WardFrameOf(cases_24h, cases_6h, icu_pressure) ==
    LET cases_normalized ==
            RatMin(<<100, 1>>, RatMul(<<cases_24h, case_ceiling>>, <<100, 1>>))
        growth_rate == IF cases_24h = 0 THEN <<0, 1>>
                       ELSE RatDiv(<<cases_6h, 1>>, <<cases_24h, 4>>)
        growth_normalized ==
            IF cases_24h = 0 THEN <<0, 1>>
            ELSE RatMin(<<100, 1>>,
                        RatMul(RatDiv(growth_rate, <<15, 10>>), <<100, 1>>))
        icu_normalized == RatMul(icu_pressure, <<100, 1>>)
        risk_score == RatAdd(RatAdd(RatMul(cases_normalized, <<5, 10>>),
                                    RatMul(growth_normalized, <<3, 10>>)),
                             RatMul(icu_normalized, <<2, 10>>))
    IN  [cases_24h    |-> cases_24h,
         cases_6h     |-> cases_6h,
         icu_pressure |-> icu_pressure,
         growth_rate  |-> growth_rate,
         risk_score   |-> risk_score,
         risk_level   |-> RiskLevel(risk_score)]

\* the locals of compute_ward_risk when nothing is written between its
\* reads (lines 133-169)
WardFrame(facs, records, status, ward) ==
    WardFrameOf(get_ward_cases_24h(facs, records, ward),
                get_ward_cases_6h(facs, records, ward),
                get_ward_icu_pressure(facs, status, ward))

\* lines 171-178: the dicts the call can return
WardResults(ward, frame) ==
    {[ward         |-> ward,
      risk_score   |-> score,
      risk_level   |-> frame.risk_level,
      recent_cases |-> frame.cases_24h,
      icu_pressure |-> pressure,
      growth_rate  |-> growth] :
        score \in Round(frame.risk_score, 1),
        pressure \in Round(frame.icu_pressure, 3),
        growth \in Round(frame.growth_rate, 2)}

\* sort(key=risk_score, reverse=True): stable, equal scores keep their order
ScoreDescending(a, b) == RatLess(b.risk_score, a.risk_score)

\* lines 193-200: one result per non-empty ward in the order of the query,
\* then the sort; the set of lists the call can return
AllWardsResults(facs, records, status, wards) ==
    LET named == SelectSeq(wards, LAMBDA w : w # <<>>)
        lists == {risks \in [1..Len(named) ->
                        UNION {WardResults(named[i],
                                    WardFrame(facs, records, status, named[i])) :
                               i \in 1..Len(named)}] :
                    \A i \in 1..Len(named) : risks[i].ward = named[i]}
    IN  {StableSort(risks, {ij \in IndexPairs(risks) :
                        ScoreDescending(risks[ij[1]], risks[ij[2]])}) :
            risks \in lists}

\* the stores the ward risk is asked about: two wards of one facility each
WardFacilityRows == <<Facility("F1", <<"W","a","r","d","-","A">>), Facility("F2", <<"W","a","r","d","-","B">>)>>

WardRecords ==
    {HealthRecord("F1", "CASE", 40, Now - 1),
     HealthRecord("F1", "CASE", 60, Now - 12),
     HealthRecord("F1", "CASE", 5, Now - 1),
     HealthRecord("F1", "CASE", 9, Now - 12),
     HealthRecord("F1", "CASE", 500, Now - 1),
     HealthRecord("F2", "CASE", 40, Now - 1)}

WardSnapshots ==
    {FacilityStatus("F1", 0, 10, Now), FacilityStatus("F1", 0, 0, Now),
     FacilityStatus("F1", 0, 25, Now), FacilityStatus("F2", 0, 10, Now),
     FacilityStatus("F1", 0, 20, Now - 2)}

\* query(Facility.ward).distinct().all() has no ORDER BY: the wards come in
\* any order
WardOrders ==
    LET ws == {WardFacilityRows[i].ward : i \in 1..Len(WardFacilityRows)}
    IN  {o \in [1..Cardinality(ws) -> ws] :
            \A i, j \in 1..Cardinality(ws) : o[i] = o[j] => i = j}

WardInit ==
    /\ facilities = WardFacilityRows
    /\ health_records \in SeqsUpTo(WardRecords, MaxRecords)
    /\ facility_status \in {st \in SeqsUpTo(WardSnapshots, MaxSnapshots) :
                                DistinctSnapshots(st)}
    /\ ward_order \in WardOrders
    /\ ward_risk = <<>> /\ ward_frame = <<>> /\ all_wards = <<>>

\* GET /ward-risk/{ward}
compute_ward_risk ==
    /\ ward_risk = <<>>
    /\ LET frame == WardFrame(facilities, health_records, facility_status,
                              <<"W","a","r","d","-","A">>)
       IN  /\ ward_frame' = frame
           /\ ward_risk' \in WardResults(<<"W","a","r","d","-","A">>, frame)
    /\ UNCHANGED <<all_wards, dbVars, capVars, statusVars,
                   normVars, spikeVars, oneVars, riskVars,
                   restVars>>

\* GET /ward-risk
get_all_wards_risk ==
    /\ all_wards = <<>>
    /\ all_wards' \in AllWardsResults(facilities, health_records,
                                      facility_status, ward_order)
    /\ UNCHANGED <<ward_risk, ward_frame, dbVars, capVars,
                   statusVars, normVars, spikeVars, oneVars, riskVars,
                   restVars>>

\* C16: a ward with cases_24h = 100, cases_6h = 40 and icu_pressure = 0.5
\* scores 50 x 0.5 + 100 x 0.3 + 50 x 0.2 = 65 and is HIGH.
C16_WorkedExample ==
    (/\ ward_frame # <<>>
     /\ ward_frame.cases_24h = 100
     /\ ward_frame.cases_6h = 40
     /\ RatEq(ward_frame.icu_pressure, <<1, 2>>)) =>
        /\ RatEq(ward_risk.risk_score, <<65, 1>>)
        /\ ward_risk.risk_level = "HIGH"

InUnit(q, hi) == ~ RatLess(q, <<0, 1>>) /\ ~ RatLess(<<hi, 1>>, q)

RiskLevels == {"LOW", "MEDIUM", "HIGH", "CRITICAL"}

\* the ward has no facility, or none of its facilities has a snapshot
NoSnapshot(ward) ==
    \A i \in 1..Len(facilities) :
        facilities[i].ward = ward =>
            \A k \in 1..Len(facility_status) :
                facility_status[k].facility_id # facilities[i].facility_id

WardResultInRange(r) ==
    /\ InUnit(r.risk_score, 100)
    /\ InUnit(r.icu_pressure, 1)
    /\ r.risk_level \in RiskLevels
    /\ NoSnapshot(r.ward) => RatEq(r.icu_pressure, <<0, 1>>)

\* C17: with non-negative case counts and ICU availability every result of
\* compute_ward_risk has risk_score in [0, 100], icu_pressure in [0, 1] (0
\* without facility or snapshot) and one of the four risk levels.
C17_ScoreAndPressureInRange ==
    /\ ward_risk # <<>> => WardResultInRange(ward_risk)
    /\ \A i \in 1..Len(all_wards) : WardResultInRange(all_wards[i])

\* more ICU beds available than the 20 assumed per facility, and the ceiling
\* of the case term reached
C17_Witness ==
    /\ ward_risk # <<>>
    /\ \E k \in 1..Len(facility_status) :
        /\ facility_status[k].facility_id = "F1"
        /\ facility_status[k].icu_available > icu_beds_per_facility
        /\ get_latest_by_facility(facility_status, "F1") = <<facility_status[k]>>
    /\ RatEq(ward_risk.icu_pressure, <<0, 1>>)
    /\ ward_risk.recent_cases >= case_ceiling
    /\ RatEq(ward_risk.risk_score, <<80, 1>>)

\* C18: the returned risk_level is the level the thresholds 75 / 50 / 25
\* assign to the returned risk_score, the score rounded to one decimal.
C18_LevelOfReturnedScore ==
    ward_risk # <<>> => ward_risk.risk_level = RiskLevel(ward_risk.risk_score)

\* a < b for ward identifiers
WardLess(a, b) == StrLess(a, b)

\* C19: get_all_wards_risk returns the wards by risk_score descending, wards
\* of equal risk_score by ward identifier, whatever the order of the query.
C19_RankingWithTieBreak ==
    \A i \in 1..Len(all_wards), j \in 1..Len(all_wards) :
        i < j =>
            \/ RatLess(all_wards[j].risk_score, all_wards[i].risk_score)
            \/ /\ RatEq(all_wards[i].risk_score, all_wards[j].risk_score)
               /\ WardLess(all_wards[i].ward, all_wards[j].ward)

(***************************************************************************)
(* POST /facility-status: schemas/facility_status_schema.py,               *)
(* services/facility_status_service.py, routers/facility_status_router.py. *)
(* A JSON string field holds <<s>> for the string s and <<>> for null.     *)
(***************************************************************************)

MedicineLevels == {<<"A","d","e","q","u","a","t","e">>, <<"L","o","w">>,
                   <<"C","r","i","t","i","c","a","l">>}

CountValidLoose(v) == v >= 0 - 1

\* Field(..., ge=0)
CountValid(v) == v >= 0

\* validator strip_facility_id: <<stripped id>>, or <<>> when it raises
strip_facility_id(v) ==
    IF v = <<>> THEN <<>>
    ELSE IF Strip(v[1]) = <<>> THEN <<>>
    ELSE <<Strip(v[1])>>

\* FacilityStatusPayload(**payload) does not raise
Validates(payload) ==
    /\ "facility_id" \in DOMAIN payload
    /\ strip_facility_id(payload.facility_id) # <<>>
    /\ CountValid(payload.beds_available)
    /\ CountValid(payload.icu_available)
    /\ CountValid(payload.ventilators_available)
    /\ CountValid(payload.oxygen_units_available)
    /\ Strip(payload.medicine_stock_status) \in MedicineLevels

\* validated.dict(): the fields stripped
Validated(payload) ==
    [facility_id            |-> strip_facility_id(payload.facility_id)[1],
     beds_available         |-> payload.beds_available,
     icu_available          |-> payload.icu_available,
     ventilators_available  |-> payload.ventilators_available,
     oxygen_units_available |-> payload.oxygen_units_available,
     medicine_stock_status  |-> Strip(payload.medicine_stock_status),
     timestamp              |-> payload.timestamp]

\* _compute_totals over the rows of the CSV
compute_totals(rows) ==
    [total_beds        |-> SumSeq([i \in 1..Len(rows) |-> rows[i].beds_available]),
     total_icu         |-> SumSeq([i \in 1..Len(rows) |-> rows[i].icu_available]),
     total_ventilators |->
        SumSeq([i \in 1..Len(rows) |-> rows[i].ventilators_available]),
     total_oxygen      |->
        SumSeq([i \in 1..Len(rows) |-> rows[i].oxygen_units_available])]

ResourceCrisisInclusive(validated) ==
    \/ validated.beds_available <= 5
    \/ validated.icu_available < 2
    \/ validated.oxygen_units_available < 5
    \/ validated.medicine_stock_status = <<"C","r","i","t","i","c","a","l">>

\* lines 116-123 of the service
ResourceCrisis(validated) ==
    \/ validated.beds_available < 5
    \/ validated.icu_available < 2
    \/ validated.oxygen_units_available < 5
    \/ validated.medicine_stock_status = <<"C","r","i","t","i","c","a","l">>

\* StatusRepository.has_crisis, latest being <<row>> or <<>>
has_crisis(latest) ==
    IF latest = <<>> THEN FALSE
    ELSE \/ latest[1].beds_available < 5
         \/ latest[1].icu_available < 2
         \/ latest[1].oxygen_units_available < 5
         \/ latest[1].medicine_stock_status = <<"C","r","i","t","i","c","a","l">>

\* StatusRepository.get_city_totals: the rows whose timestamp is the
\* greatest of their facility, summed
get_city_totals(snapshots) ==
    LET latest_ts(f) ==
            SetMax({snapshots[i].timestamp :
                        i \in {j \in 1..Len(snapshots) :
                                    snapshots[j].facility_id = f}})
        results ==
            SelectSeq(snapshots,
                      LAMBDA r : r.timestamp = latest_ts(r.facility_id))
    IN  compute_totals(results)

\* process_facility_status on a payload that validates: the CSV after the
\* append and the returned dict
process_facility_status(rows, payload) ==
    LET validated == Validated(payload)
        appended == Append(rows, validated)
        totals == compute_totals(appended)
        crisis == ResourceCrisis(validated)
    IN  [csv             |-> appended,
         facility_id     |-> validated.facility_id,
         resource_crisis |-> crisis,
         city_totals     |-> totals,
         event           |-> [type            |-> "facility_status",
                              facility_id     |-> validated.facility_id,
                              resource_crisis |-> crisis,
                              totals          |-> totals]]

\* the requests: facility_id absent, null, blank, empty, plain or padded
MaxStatusRows == 2

FacilityIdInputs == {<<>>, <<<<>>>>, <<<<" "," ">>>>, <<<<"H">>>>,
                     <<<<" ","H"," ">>>>, <<<<"G">>>>}

PayloadBody(beds, icu, vent, oxygen, medicine, ts) ==
    [beds_available         |-> beds,
     icu_available          |-> icu,
     ventilators_available  |-> vent,
     oxygen_units_available |-> oxygen,
     medicine_stock_status  |-> medicine,
     timestamp              |-> ts]

Adequate == <<"A","d","e","q","u","a","t","e">>

\* a report without shortage, at the first and at the second instant
PlainBody(ts) == PayloadBody(12, 3, 4, 20, Adequate, ts)

\* reports with one resource short, without ventilators, and with every
\* resource at its threshold
ShortageBodies ==
    {PayloadBody(3, 3, 4, 20, Adequate, 1),
     PayloadBody(12, 1, 4, 20, Adequate, 1),
     PayloadBody(12, 3, 4, 3, Adequate, 1),
     PayloadBody(12, 3, 4, 20, <<"C","r","i","t","i","c","a","l">>, 1),
     PayloadBody(12, 3, 0, 20, Adequate, 1),
     PayloadBody(5, 2, 4, 5, Adequate, 1)}

\* reports with one negative count
NegativeBodies ==
    {PayloadBody(0 - 1, 3, 4, 20, Adequate, 1),
     PayloadBody(12, 0 - 1, 4, 20, Adequate, 1),
     PayloadBody(12, 3, 0 - 1, 20, Adequate, 1),
     PayloadBody(12, 3, 4, 0 - 1, Adequate, 1)}

\* a body with the key facility_id
WithFacilityId(body, v) ==
    [k \in DOMAIN body \cup {"facility_id"} |->
        IF k = "facility_id" THEN v ELSE body[k]]

StatusPayloads ==
    {PlainBody(1)} \cup
    {WithFacilityId(PlainBody(ts), v) : ts \in {1, 2}, v \in FacilityIdInputs} \cup
    {WithFacilityId(body, v) :
        body \in ShortageBodies \cup NegativeBodies,
        v \in {<<<<"H">>>>, <<<<" ","H"," ">>>>}}

StatusInit ==
    /\ status_csv = <<>>
    /\ background_tasks = <<>>
    /\ status_payload = <<>>
    /\ status_response = <<>>

\* POST /facility-status/
ingest_facility_status ==
    /\ \E payload \in StatusPayloads :
        /\ status_payload' = payload
        /\ IF ~ Validates(payload)
           THEN /\ status_response' = [status_code |-> 422]
                /\ UNCHANGED <<status_csv, background_tasks>>
           ELSE /\ Len(status_csv) < MaxStatusRows
                /\ LET result == process_facility_status(status_csv, payload)
                   IN  /\ status_csv' = result.csv
                       /\ background_tasks' =
                            Append(background_tasks, result.event)
                       /\ status_response' =
                            [status_code     |-> 200,
                             status          |-> "ingested",
                             resource_crisis |-> result.resource_crisis,
                             facility_id     |-> result.facility_id,
                             city_totals     |-> result.city_totals]
    /\ UNCHANGED <<dbVars, capVars, wardVars, normVars, spikeVars, oneVars,
                   riskVars,
                   restVars>>

\* the payload has a negative resource count or no usable facility_id
RejectedByClaim(payload) ==
    \/ "facility_id" \notin DOMAIN payload
    \/ payload.facility_id = <<>>
    \/ \A i \in 1..Len(payload.facility_id[1]) : payload.facility_id[1][i] = " "
    \/ payload.beds_available < 0
    \/ payload.icu_available < 0
    \/ payload.ventilators_available < 0
    \/ payload.oxygen_units_available < 0

\* C20: a facility-status payload with a negative resource count or a
\* missing or blank facility_id is answered 422, and neither is a row
\* appended to the CSV nor a broadcast scheduled.
C20_RejectedPayloadChangesNothing ==
    [][RejectedByClaim(status_payload') =>
        /\ status_response'.status_code = 422
        /\ status_csv' = status_csv
        /\ background_tasks' = background_tasks]_vars

\* a payload with beds_available = -1 rejected after one was ingested
C20_Witness ==
    /\ status_payload # <<>>
    /\ "facility_id" \in DOMAIN status_payload
    /\ status_payload.facility_id = <<<<"H">>>>
    /\ status_payload.beds_available < 0
    /\ status_payload.icu_available >= 0
    /\ status_response.status_code = 422
    /\ Len(status_csv) = 1
    /\ Len(background_tasks) = 1

\* C21: for every accepted payload the returned resource_crisis flag is
\* true exactly when beds_available < 5 or icu_available < 2 or
\* oxygen_units_available < 5 or medicine_stock_status is Critical; it is
\* a function of that payload alone and equals has_crisis of the snapshot.
C21_CrisisFromPayloadOnly ==
    (status_response # <<>> /\ status_response.status_code = 200) =>
        LET snapshot == Validated(status_payload)
        IN  /\ status_response.resource_crisis =
                    (\/ status_payload.beds_available < 5
                     \/ status_payload.icu_available < 2
                     \/ status_payload.oxygen_units_available < 5
                     \/ Strip(status_payload.medicine_stock_status) =
                            <<"C","r","i","t","i","c","a","l">>)
            /\ status_response.resource_crisis = has_crisis(<<snapshot>>)

\* a report at the thresholds (5 beds, 2 ICU, 5 oxygen) is accepted without
\* crisis after a report of the same facility that was in crisis
C21_Witness ==
    /\ status_response # <<>>
    /\ status_response.status_code = 200
    /\ status_response.resource_crisis = FALSE
    /\ status_payload.beds_available = 5
    /\ status_payload.icu_available = 2
    /\ status_payload.oxygen_units_available = 5
    /\ Len(status_csv) = 2
    /\ status_csv[1].facility_id = status_csv[2].facility_id
    /\ has_crisis(<<status_csv[1]>>)

\* C27: the city_totals of an accepted post count each facility once, by
\* its most recent snapshot, and equal get_city_totals over the snapshots
\* posted so far.
C27_TotalsOfLatestSnapshots ==
    (status_response # <<>> /\ status_response.status_code = 200) =>
        status_response.city_totals = get_city_totals(status_csv)

(***************************************************************************)
(* compute_ward_risk running while events are ingested: the handlers are   *)
(* sync endpoints run in the thread pool, and every session shares the one *)
(* connection of the StaticPool (core/database.py:28-33), so each query    *)
(* of a pass sees what was written before it.                              *)
(***************************************************************************)

PassInit ==
    /\ facilities = WardFacilityRows
    /\ health_records \in
            {<<>>, <<HealthRecord("F1", "CASE", 5, Now - 1)>>,
             <<HealthRecord("F1", "CASE", 60, Now - 12)>>}
    /\ facility_status \in {<<>>, <<FacilityStatus("F1", 0, 10, Now)>>}
    /\ ward_order = <<>>
    /\ pass_pc = "start"
    /\ pass_cases_24h = 0
    /\ pass_cases_6h = 0
    /\ pass_frame = <<>>
    /\ pass_risk = <<>>

\* HealthRepository.create_record for facility F1, timestamp utcnow()
create_record ==
    /\ Len(health_records) < MaxRecords
    /\ \E total_cases \in {5, 40} :
            health_records' =
                Append(health_records, HealthRecord("F1", "CASE", total_cases, Now))
    /\ UNCHANGED <<facilities, facility_status, ward_order, passVars, normVars,
                   spikeVars, oneVars, riskVars, capVars, wardVars, statusVars,
                   orderVars, failVars, ingestVars,
                   ambulanceVars, wsVars>>

\* line 133: cases_24h = self.get_ward_cases_24h(ward)
pass_read_24h ==
    /\ pass_pc = "start"
    /\ pass_cases_24h' =
            get_ward_cases_24h(facilities, health_records, <<"W","a","r","d","-","A">>)
    /\ pass_pc' = "read_24h"
    /\ UNCHANGED <<pass_cases_6h, pass_frame, pass_risk, dbVars, normVars,
                   spikeVars, oneVars, riskVars, capVars, wardVars, statusVars,
                   orderVars, failVars, ingestVars,
                   ambulanceVars, wsVars>>

\* line 134: cases_6h = self.get_ward_cases_6h(ward)
pass_read_6h ==
    /\ pass_pc = "read_24h"
    /\ pass_cases_6h' =
            get_ward_cases_6h(facilities, health_records, <<"W","a","r","d","-","A">>)
    /\ pass_pc' = "read_6h"
    /\ UNCHANGED <<pass_cases_24h, pass_frame, pass_risk, dbVars, normVars,
                   spikeVars, oneVars, riskVars, capVars, wardVars, statusVars,
                   orderVars, failVars, ingestVars,
                   ambulanceVars, wsVars>>

\* lines 135-178: the read of the ICU pressure, the score and the return
pass_return ==
    /\ pass_pc = "read_6h"
    /\ LET frame == WardFrameOf(pass_cases_24h, pass_cases_6h,
                        get_ward_icu_pressure(facilities, facility_status,
                                              <<"W","a","r","d","-","A">>))
       IN  /\ pass_frame' = frame
           /\ pass_risk' \in WardResults(<<"W","a","r","d","-","A">>, frame)
    /\ pass_pc' = "done"
    /\ UNCHANGED <<pass_cases_24h, pass_cases_6h, dbVars, normVars,
                   spikeVars, oneVars, riskVars, capVars, wardVars, statusVars,
                   orderVars, failVars, ingestVars,
                   ambulanceVars, wsVars>>

\* C24: in every result of compute_ward_risk, also when events are
\* ingested while it runs, the 6-hour count does not exceed the 24-hour
\* count, so growth_rate <= 4, and recent_cases = 0 implies growth_rate = 0.
C24_CoherentCounts ==
    pass_pc = "done" =>
        /\ pass_frame.cases_6h <= pass_frame.cases_24h
        /\ ~RatLess(<<4, 1>>, pass_risk.growth_rate)
        /\ pass_risk.recent_cases = 0 => RatEq(pass_risk.growth_rate, <<0, 1>>)

(***************************************************************************)
(* services/ingestion_service.py: process_ingest(db, payload).             *)
(***************************************************************************)

\* largest number of calls of process_ingest
MaxIngests == 3

\* PatientTransactionSchema(**payload) does not raise: count has ge=1 and
\* validate_type accepts CASE and VACCINATION in any case
IngestValidates(payload) ==
    /\ payload.count >= 1
    /\ StrUpper(payload.transaction_type) \in
            {<<"C","A","S","E">>,
             <<"V","A","C","C","I","N","A","T","I","O","N">>}

\* rec.dict(): validate_type returns v.upper()
IngestRow(payload) ==
    [facility_id      |-> payload.facility_id,
     transaction_type |-> StrUpper(payload.transaction_type),
     indicator_name   |-> payload.indicator_name,
     count            |-> payload.count]

\* the row written to the failed store (lines 64-68)
FailedRow(payload, error) ==
    [facility_id |-> payload.facility_id, indicator_name |-> error]

\* where a call can fail after validation: nowhere, at db.commit() (line
\* 44), or at ingested_store.append (line 50)
IngestFaults == {"none", "commit", "append"}

IngestPayloads ==
    {[facility_id |-> "F1", transaction_type |-> t, indicator_name |-> "dengue",
      count |-> c] :
        t \in {<<"C","A","S","E">>, <<"c","a","s","e">>, <<"L","A","B">>},
        c \in {0, 1, 200, 250}}

IngestInit ==
    /\ ingested_store = <<>>
    /\ oneRecord = <<>> /\ oneResult = FALSE /\ oPc = "idle"
    /\ patient_transactions = <<>>
    /\ failed_store = <<>>
    /\ ingest_payload = <<>>
    /\ ingest_result = <<>>

\* process_ingest(db, payload)
process_ingest ==
    /\ Len(ingested_store) + Len(failed_store) < MaxIngests
    /\ \E payload \in IngestPayloads, fault \in IngestFaults :
        /\ ingest_payload' = payload
        /\ IF ~IngestValidates(payload)
           THEN /\ failed_store' =
                        Append(failed_store, FailedRow(payload, "Error: validation"))
                /\ ingest_result' = [status |-> "failed", error |-> "validation"]
                /\ UNCHANGED <<patient_transactions, ingested_store>>
           ELSE IF fault = "commit"
           THEN /\ failed_store' =
                        Append(failed_store, FailedRow(payload, "Error: commit"))
                /\ ingest_result' = [status |-> "failed", error |-> "commit"]
                /\ UNCHANGED <<patient_transactions, ingested_store>>
           ELSE IF fault = "append"
           THEN /\ patient_transactions' =
                        Append(patient_transactions, IngestRow(payload))
                /\ failed_store' =
                        Append(failed_store, FailedRow(payload, "Error: append"))
                /\ ingest_result' = [status |-> "failed", error |-> "append"]
                /\ UNCHANGED ingested_store
           ELSE LET row == IngestRow(payload)
                    stored == Append(ingested_store, row)
                IN  /\ patient_transactions' = Append(patient_transactions, row)
                    /\ ingested_store' = stored
                    /\ ingest_result' =
                            [status            |-> "ingested",
                             outbreak_detected |-> detect_outbreaks_record(stored, row),
                             type              |-> row.transaction_type]
                    /\ UNCHANGED failed_store
    /\ UNCHANGED <<oneRecord, oneResult, oPc, normVars, spikeVars, riskVars,
                   dbVars, capVars, wardVars, statusVars, orderVars, failVars,
                   passVars, ambulanceVars, wsVars>>

\* C26: process_ingest reports outbreak_detected = true for every ingested
\* event whose count is >= 200, whatever the ingested history is.
C26_OutbreakAtThreshold ==
    (/\ ingest_result # <<>>
     /\ ingest_result.status = "ingested"
     /\ ingest_payload.count >= threshold) => ingest_result.outbreak_detected

\* C30: a call that returns 'failed' leaves the transaction table and the
\* ingested audit trail as they were and adds exactly one row to the failed
\* store; a call that returns 'ingested' adds the event to the table and to
\* the audit trail and nothing to the failed store.
C30_AllOrNothing ==
    [][/\ ingest_result'.status = "failed" =>
            /\ patient_transactions' = patient_transactions
            /\ ingested_store' = ingested_store
            /\ Len(failed_store') = Len(failed_store) + 1
       /\ ingest_result'.status = "ingested" =>
            /\ patient_transactions' =
                    Append(patient_transactions, IngestRow(ingest_payload'))
            /\ ingested_store' = Append(ingested_store, IngestRow(ingest_payload'))
            /\ failed_store' = failed_store]_vars

(***************************************************************************)
(* repositories/ambulance_repository.py, services/ambulance_service.py.    *)
(* The ambulances stand on the meridian of the caller, who is at latitude  *)
(* 0; latitudes are in hundredths of a degree.                             *)
(***************************************************************************)

\* largest number of ambulances in the table
MaxAmbulances == 3

\* models/orm.py: class Ambulance
Ambulance(id, status, lat) == [id |-> id, status |-> status, lat |-> lat]

\* lines 144-148: sqrt((amb.lat - lat)^2 + 0^2) * 111, in km
DistanceKm(amb, lat) == <<Abs(amb.lat - lat) * 111, 100>>

\* find_nearest_available calls find_nearest without max_distance_km, which
\* is then the default of AmbulanceService.find_nearest
max_distance_km == 50

\* AmbulanceRepository.find_nearest (lines 139-166)
find_nearest(ambs, lat, limit) ==
    LET within == SelectSeq(ambs, LAMBDA amb :
                    ~RatLess(<<max_distance_km, 1>>, DistanceKm(amb, lat)))
        results == [i \in 1..Len(within) |->
                        [id          |-> within[i].id,
                         status      |-> within[i].status,
                         lat         |-> within[i].lat,
                         distance_km |->
                            CHOOSE r \in Round(DistanceKm(within[i], lat), 2) : TRUE]]
        frame == SelectSeq(results, LAMBDA r : TRUE)
        sorted == StableSort(frame, {ij \in IndexPairs(frame) :
                    RatLess(frame[ij[1]].distance_km, frame[ij[2]].distance_km)})
    IN  SubSeq(sorted, 1, IF Len(sorted) < limit THEN Len(sorted) ELSE limit)

\* AmbulanceService.find_nearest_available (lines 130-133)
find_nearest_available(ambs, lat, limit) ==
    LET all_nearest == find_nearest(ambs, lat, limit * 2)
        available == SelectSeq(all_nearest, LAMBDA a : a.status = "AVAILABLE")
    IN  SubSeq(available, 1, IF Len(available) < limit THEN Len(available) ELSE limit)

\* ambulances 11.1 km, 22.2 km and 51.06 km north or south of the caller
AmbulanceInit ==
    /\ \E rows \in SeqsUpTo({"AVAILABLE", "BUSY", "OFFLINE"} \X {10, 0 - 20, 46},
                            MaxAmbulances) :
            ambulances = [i \in 1..Len(rows) |->
                            Ambulance(i, rows[i][1], rows[i][2])]
    /\ nearest_limit = 0
    /\ nearest_result = <<>>

\* GET /ambulances/nearest?lat=0&lng=0&available_only=true
find_nearest_ambulances ==
    /\ nearest_result = <<>>
    /\ \E limit \in {1, 2} :
            /\ nearest_limit' = limit
            /\ nearest_result' = <<find_nearest_available(ambulances, 0, limit)>>
    /\ UNCHANGED <<ambulances, normVars, spikeVars, oneVars, riskVars, dbVars,
                   capVars, wardVars, statusVars, orderVars, failVars,
                   passVars, ingestVars, wsVars>>

\* the AVAILABLE ambulances within the distance limit
AvailableInReach ==
    {i \in 1..Len(ambulances) :
        /\ ambulances[i].status = "AVAILABLE"
        /\ ~RatLess(<<max_distance_km, 1>>, DistanceKm(ambulances[i], 0))}

\* C28: find_nearest_available returns the min(limit, k) nearest AVAILABLE
\* ambulances in order of distance, k being the number of AVAILABLE ones
\* within the distance limit, and no ambulance that is not AVAILABLE.
C28_NearestAvailable ==
    nearest_result # <<>> =>
        LET found == nearest_result[1]
            ids == {found[i].id : i \in 1..Len(found)}
            k == Cardinality(AvailableInReach)
        IN  /\ Len(found) = (IF nearest_limit < k THEN nearest_limit ELSE k)
            /\ ids \subseteq AvailableInReach
            /\ \A i \in 1..Len(found), j \in 1..Len(found) :
                    i < j => ~RatLess(found[j].distance_km, found[i].distance_km)
            /\ \A i \in AvailableInReach \ ids, j \in ids :
                    ~RatLess(DistanceKm(ambulances[i], 0),
                             DistanceKm(ambulances[j], 0))

(***************************************************************************)
(* core/ws_manager.py: the shared ConnectionManager. broadcast awaits      *)
(* send_json once per connection, and the background task that calls it    *)
(* runs it with asyncio.run in a worker thread (ingestion_router.py:13-23) *)
(* next to the event loop that runs connect and disconnect.                *)
(***************************************************************************)

\* number of websockets, each connecting once
NumSockets == 2

\* largest number of broadcasts
MaxBroadcasts == 2

Sockets == 1..NumSockets

\* list.remove(x): without the first occurrence of x
Remove(list, x) ==
    LET at == SetMin({i \in 1..Len(list) : list[i] = x})
    IN  SubSeq(list, 1, at - 1) \o SubSeq(list, at + 1, Len(list))

InList(list, x) == \E i \in 1..Len(list) : list[i] = x

WsInit ==
    /\ active = <<>>
    /\ socket_state = [w \in Sockets |-> "new"]
    /\ bc_pc = "idle"
    /\ bc_pending = <<>>
    /\ living = <<>>
    /\ broadcasts = 0

\* manager.connect(websocket), after accept()
connect ==
    /\ \E w \in Sockets :
        /\ socket_state[w] = "new"
        /\ active' = Append(active, w)
        /\ socket_state' = [socket_state EXCEPT ![w] = "connected"]
    /\ UNCHANGED <<bc_pc, bc_pending, living, broadcasts, normVars, spikeVars,
                   oneVars, riskVars, dbVars, capVars, wardVars, statusVars,
                   orderVars, failVars, passVars, ingestVars, ambulanceVars>>

\* websocket_endpoint: receive_text raises WebSocketDisconnect, then
\* manager.disconnect(websocket)
disconnect ==
    /\ \E w \in Sockets :
        /\ socket_state[w] \in {"connected", "failed"}
        /\ active' = IF InList(active, w) THEN Remove(active, w) ELSE active
        /\ socket_state' = [socket_state EXCEPT ![w] = "disconnected"]
    /\ UNCHANGED <<bc_pc, bc_pending, living, broadcasts, normVars, spikeVars,
                   oneVars, riskVars, dbVars, capVars, wardVars, statusVars,
                   orderVars, failVars, passVars, ingestVars, ambulanceVars>>

\* broadcast, lines 19-20: living = [] and list(self.active)
broadcast_begin ==
    /\ bc_pc = "idle"
    /\ broadcasts < MaxBroadcasts
    /\ broadcasts' = broadcasts + 1
    /\ living' = <<>>
    /\ bc_pending' = active
    /\ bc_pc' = "loop"
    /\ UNCHANGED <<active, socket_state, normVars, spikeVars,
                   oneVars, riskVars, dbVars, capVars, wardVars, statusVars,
                   orderVars, failVars, passVars, ingestVars, ambulanceVars>>

\* broadcast, lines 21-28: one send_json; it raises for a websocket that
\* is gone and can raise for a connected one
broadcast_send ==
    /\ bc_pc = "loop"
    /\ bc_pending # <<>>
    /\ LET conn == Head(bc_pending)
       IN  \E sent \in IF socket_state[conn] = "connected" THEN BOOLEAN ELSE {FALSE} :
                /\ living' = IF sent THEN Append(living, conn) ELSE living
                /\ socket_state' =
                        IF ~sent /\ socket_state[conn] = "connected"
                        THEN [socket_state EXCEPT ![conn] = "failed"]
                        ELSE socket_state
    /\ bc_pending' = Tail(bc_pending)
    /\ UNCHANGED <<active, bc_pc, broadcasts, normVars, spikeVars,
                   oneVars, riskVars, dbVars, capVars, wardVars, statusVars,
                   orderVars, failVars, passVars, ingestVars, ambulanceVars>>

\* broadcast, line 29: self.active = living
broadcast_end ==
    /\ bc_pc = "loop"
    /\ bc_pending = <<>>
    /\ active' = living
    /\ bc_pc' = "idle"
    /\ UNCHANGED <<socket_state, bc_pending, living, broadcasts, normVars,
                   spikeVars, oneVars, riskVars, dbVars, capVars, wardVars,
                   statusVars, orderVars, failVars, passVars, ingestVars,
                   ambulanceVars>>

\* C29: whenever no broadcast is in progress, the active list holds exactly
\* the websockets that completed connect and have neither disconnected nor
\* failed a send, under every interleaving of connect, disconnect and
\* broadcast.
C29_ActiveIsConnected ==
    bc_pc = "idle" =>
        \A w \in Sockets : InList(active, w) <=> socket_state[w] = "connected"

(***************************************************************************)
(* The record store failing under an engine: the read raises.              *)
(***************************************************************************)

FailInit ==
    /\ OneInit
    /\ facilities = <<>>
    /\ health_records \in {<<>>, <<HealthRecord("F1", "CASE", 5, Now - 1)>>}
    /\ facility_status = <<>>
    /\ ward_order = <<>>
    /\ failed_read = ""
    /\ call_outcome = ""

\* detect_outbreaks(storage, record) while storage.read_last raises: the
\* read is reached when the count is below the threshold, and the
\* except Exception of line 29 turns the failure into False
DetectRecordStoreDown ==
    /\ \E name \in IndicatorNames, c \in RecordCounts :
            LET record == [indicatorname |-> name, total_cases |-> c]
                tc == GetInt(record, "total_cases", 0)
            IN  /\ oneRecord' = record
                /\ oneResult' = (tc >= threshold)
                /\ failed_read' = IF tc >= threshold THEN "" ELSE "read_last"
    /\ oPc' = "checked"
    /\ call_outcome' = "returned"
    /\ UNCHANGED <<ingested_store, normVars, spikeVars, riskVars, dbVars,
                   capVars, wardVars, statusVars, orderVars, passVars,
                   ingestVars, ambulanceVars, wsVars>>

\* predict_bed_demand("F1") while one of its two reads raises: the read of
\* the events (line 53), or the read of the snapshot (line 76), which is
\* reached when there are events; nothing catches the exception
predict_bed_demand_store_down ==
    /\ \E read \in {"events", "snapshot"} :
            IF read = "events"
            THEN failed_read' = "events" /\ call_outcome' = "raised"
            ELSE IF get_last_n_hours_by_facility(health_records, "F1", 6) = <<>>
                 THEN failed_read' = "" /\ call_outcome' = "returned"
                 ELSE failed_read' = "snapshot" /\ call_outcome' = "raised"
    /\ UNCHANGED <<normVars, spikeVars, oneVars, riskVars, dbVars, capVars,
                   wardVars, statusVars, orderVars, passVars,
                   ingestVars, ambulanceVars, wsVars>>

\* compute_ward_risk(ward) while the read of the ward's events raises
\* (line 133): nothing catches the exception
compute_ward_risk_store_down ==
    /\ failed_read' = "ward_events"
    /\ call_outcome' = "raised"
    /\ UNCHANGED <<normVars, spikeVars, oneVars, riskVars, dbVars, capVars,
                   wardVars, statusVars, orderVars, passVars,
                   ingestVars, ambulanceVars, wsVars>>

\* C23: when a read of the record store fails during an engine operation,
\* the caller sees the failure: the engine does not turn it into a normal
\* result.
C23_StoreFailurePropagates ==
    failed_read # "" => call_outcome = "raised"

(***************************************************************************)
(* Specifications: one per component, the other components at rest.        *)
(***************************************************************************)

NormIdle ==
    /\ nIn = <<>> /\ nAlt = <<>> /\ nOut = <<>> /\ nAltOut = <<>>
    /\ nTwice = <<>> /\ nPc = "idle"

SpikeIdle ==
    /\ csvRows = <<>> /\ grouped = <<>> /\ floored = <<>>
    /\ outbreaks = <<>> /\ sPc = "idle"

OneIdle ==
    /\ ingested_store = <<>> /\ oneRecord = <<>> /\ oneResult = FALSE /\ oPc = "idle"

RiskIdle ==
    /\ riskCsv = <<>> /\ riskEvents = <<>> /\ riskRows = <<>> /\ rPc = "idle"

DbIdle ==
    /\ facilities = <<>> /\ health_records = <<>> /\ facility_status = <<>>
    /\ ward_order = <<>>

CapIdle ==
    /\ bed_frame = <<>> /\ bed_prediction = <<>>
    /\ icu_frame = <<>> /\ icu_prediction = <<>>

WardIdle ==
    /\ ward_risk = <<>> /\ ward_frame = <<>> /\ all_wards = <<>>

StatusIdle ==
    /\ status_csv = <<>> /\ background_tasks = <<>>
    /\ status_payload = <<>> /\ status_response = <<>>

OrderIdle == permRows = <<>> /\ second_run = <<>> /\ permuted_run = <<>>

FailIdle == failed_read = "" /\ call_outcome = ""

PassIdle ==
    /\ pass_pc = "idle" /\ pass_cases_24h = 0 /\ pass_cases_6h = 0
    /\ pass_frame = <<>> /\ pass_risk = <<>>

IngestIdle ==
    /\ patient_transactions = <<>> /\ failed_store = <<>>
    /\ ingest_payload = <<>> /\ ingest_result = <<>>

AmbulanceIdle ==
    ambulances = <<>> /\ nearest_limit = 0 /\ nearest_result = <<>>

WsIdle ==
    /\ active = <<>> /\ socket_state = <<>> /\ bc_pc = "idle"
    /\ bc_pending = <<>> /\ living = <<>> /\ broadcasts = 0

RestIdle ==
    /\ OrderIdle /\ FailIdle /\ PassIdle /\ IngestIdle /\ AmbulanceIdle
    /\ WsIdle

OthersIdle == DbIdle /\ CapIdle /\ WardIdle /\ StatusIdle /\ RestIdle

InitNorm == NormInit /\ SpikeIdle /\ OneIdle /\ RiskIdle /\ OthersIdle

NextNorm == NormalizeName \/ NormalizeSpelling \/ NormalizeAgain

SpecNorm == InitNorm /\ [][NextNorm]_vars

InitSpike == SpikeInit /\ NormIdle /\ OneIdle /\ RiskIdle /\ OthersIdle

NextSpike == detect_outbreaks

SpecSpike == InitSpike /\ [][NextSpike]_vars

InitOne == OneInit /\ NormIdle /\ SpikeIdle /\ RiskIdle /\ OthersIdle

NextOne == StorageAppend \/ DetectRecord

SpecOne == InitOne /\ [][NextOne]_vars

InitRisk == RiskInit /\ NormIdle /\ SpikeIdle /\ OneIdle /\ OthersIdle

NextRisk == compute_risk

SpecRisk == InitRisk /\ [][NextRisk]_vars

InitCap ==
    /\ CapInit /\ WardIdle /\ StatusIdle
    /\ NormIdle /\ SpikeIdle /\ OneIdle /\ RiskIdle /\ RestIdle

NextCap == predict_bed_demand \/ predict_icu_demand

SpecCap == InitCap /\ [][NextCap]_vars

InitWard ==
    /\ WardInit /\ CapIdle /\ StatusIdle
    /\ NormIdle /\ SpikeIdle /\ OneIdle /\ RiskIdle /\ RestIdle

NextWard == compute_ward_risk \/ get_all_wards_risk

SpecWard == InitWard /\ [][NextWard]_vars

InitStatus ==
    /\ StatusInit /\ DbIdle /\ CapIdle /\ WardIdle
    /\ NormIdle /\ SpikeIdle /\ OneIdle /\ RiskIdle /\ RestIdle

NextStatus == ingest_facility_status

SpecStatus == InitStatus /\ [][NextStatus]_vars

InitOrder ==
    /\ OrderInit
    /\ NormIdle /\ OneIdle /\ RiskIdle
    /\ DbIdle /\ CapIdle /\ WardIdle /\ StatusIdle /\ FailIdle /\ PassIdle
    /\ IngestIdle /\ AmbulanceIdle
    /\ WsIdle

NextOrder == detect_outbreaks \/ detect_outbreaks_again \/ detect_outbreaks_permuted

SpecOrder == InitOrder /\ [][NextOrder]_vars

InitFail ==
    /\ FailInit
    /\ NormIdle /\ SpikeIdle /\ RiskIdle
    /\ CapIdle /\ WardIdle /\ StatusIdle /\ OrderIdle /\ PassIdle
    /\ IngestIdle /\ AmbulanceIdle
    /\ WsIdle

NextFail ==
    \/ StorageAppend
    \/ DetectRecordStoreDown
    \/ predict_bed_demand_store_down
    \/ compute_ward_risk_store_down

SpecFail == InitFail /\ [][NextFail]_vars

InitPass ==
    /\ PassInit
    /\ NormIdle /\ SpikeIdle /\ OneIdle /\ RiskIdle
    /\ CapIdle /\ WardIdle /\ StatusIdle /\ OrderIdle /\ FailIdle
    /\ IngestIdle /\ AmbulanceIdle
    /\ WsIdle

NextPass == create_record \/ pass_read_24h \/ pass_read_6h \/ pass_return

SpecPass == InitPass /\ [][NextPass]_vars

InitIngest ==
    /\ IngestInit
    /\ NormIdle /\ SpikeIdle /\ RiskIdle
    /\ DbIdle /\ CapIdle /\ WardIdle /\ StatusIdle
    /\ OrderIdle /\ FailIdle /\ PassIdle /\ AmbulanceIdle
    /\ WsIdle

NextIngest == process_ingest

SpecIngest == InitIngest /\ [][NextIngest]_vars

InitAmbulance ==
    /\ AmbulanceInit
    /\ NormIdle /\ SpikeIdle /\ OneIdle /\ RiskIdle
    /\ DbIdle /\ CapIdle /\ WardIdle /\ StatusIdle
    /\ OrderIdle /\ FailIdle /\ PassIdle /\ IngestIdle
    /\ WsIdle

NextAmbulance == find_nearest_ambulances

SpecAmbulance == InitAmbulance /\ [][NextAmbulance]_vars

InitWs ==
    /\ WsInit
    /\ NormIdle /\ SpikeIdle /\ OneIdle /\ RiskIdle
    /\ DbIdle /\ CapIdle /\ WardIdle /\ StatusIdle
    /\ OrderIdle /\ FailIdle /\ PassIdle /\ IngestIdle /\ AmbulanceIdle

NextWs ==
    connect \/ disconnect \/ broadcast_begin \/ broadcast_send \/ broadcast_end

SpecWs == InitWs /\ [][NextWs]_vars

====
